---------------------------- MODULE Spec2Model ----------------------------
(***************************************************************************)
(* Model of the transcript search tool (app.py: search_transcripts and the *)
(* invoke entrypoint), of the two provisioning handlers (clean_index.py,   *)
(* s3vector_support_app.py) and of cfnresponse.send.                       *)
(*                                                                         *)
(* Text is modelled as a sequence of lower-case word tokens; str.count of  *)
(* a term in a text is the number of tokens holding the term as a          *)
(* substring (table ProperSubstr) plus, for a phrase of several words, the *)
(* number of windows of the text equal to the phrase.  Scores are exact    *)
(* rationals <<numerator, denominator>>.                                   *)
(***************************************************************************)
EXTENDS Integers, Sequences, FiniteSets, TLC

VARIABLES
  \* ---- search_transcripts (app.py) ----
  pc,              \* position of the run inside search_transcripts
  query,           \* the query, lower-cased, as word tokens
  persona,         \* inferred persona
  candidates,      \* scored candidates of the current pass
  top_docs,        \* slate selected by the clustering step
  valid_results,   \* link-bearing entries of the slate
  result,          \* what the run returned (or the exception that escaped)
  embedCalls,      \* number of bedrock.invoke_model calls issued
  embedding,       \* what bedrock.invoke_model answered ("none" before the call)
  vectorQueries,   \* topK of every s3vectors.query_vectors call issued, in order
  responses,       \* what each of those calls returned, in order
  initialValid,    \* valid_results as left by the initial pass (NotReached before)
  \* ---- provisioning handlers (clean_index.py, s3vector_support_app.py) ----
  hpc,             \* position inside the handler: "idle", "loop", "send"
  handler,         \* which handler runs: "bucket" (s3vector_support_app) or "index" (clean_index)
  event,           \* the lifecycle event being handled
  status,          \* local status
  reason,          \* local reason
  attempt,         \* loop variable of the retry loop
  bucketExists,    \* the store: the vector bucket exists
  indexExists,     \* the store: the index exists (inside the bucket)
  storeCalls,      \* store operations called by this invocation, in order
  lastOutcome,     \* what the last store operation of this invocation answered
  sent,            \* status messages handed to cfnresponse.send by this invocation
  delivered,       \* status messages the callback URL received from this invocation
  escaped,         \* the exception that left the handler ("none" if it returned)
  faulted,         \* a transient store fault was injected into this invocation
  last,            \* summary of the invocation that ended last
  prev,            \* summary of the invocation that ended before it
  invocations,     \* number of invocations started
  \* ---- invoke, the entrypoint (app.py) ----
  ipc,             \* position inside invoke: "start", "agent", "done"
  payload,         \* the payload: its prompt ("absent", "empty" or "given")
  toolOutput,      \* the envelope search_transcripts returned to the agent
  response,        \* what content_agent(prompt) returned
  invokeResult,    \* what invoke returned
  agentCalls,      \* number of calls of content_agent
  \* ---- the ingestion handler (create_index.py) ----
  gpc,             \* position inside handler: "idle", "record", "chunk", "flush"
  ingestEvent,     \* event["Records"]: the files of the event being processed
  recordIdx,       \* position of the file being processed in the event
  chunkIdx,        \* position of the next chunk in the chunks of that file
  vectorsBuf,      \* the list `vectors` awaiting upload
  indexContents,   \* the vector index: key -> the chunk whose vector it holds
  overwritten,     \* chunks whose vector was replaced by another chunk's
  putCalls,        \* the put_vectors calls issued: size and outcome
  ingestResult,    \* "none", 200, or "raised"
  ingestEvents,    \* number of ingestion events received
  sourceBucket,    \* the spreadsheets the source bucket holds
  faultBudget,     \* embedding faults still followed (-1: every one)
  embedded,        \* the chunks embedded with the index dimension by this invocation
  \* ---- two concurrent invocations of search_transcripts (app.py) ----
  cpc,             \* per invocation: its position
  cargs,           \* per invocation: the query it was called with
  cseen,           \* per invocation: the answers it got from the services
  cframe,          \* per frame: the local variables of the call
  cresult,         \* per invocation: what it returned
  moduleConfig     \* model_id, s3_vector_bucket, index_name of the module

searchVars == << pc, query, persona, candidates, top_docs, valid_results,
                 result, embedCalls, embedding, vectorQueries, responses,
                 initialValid >>

provVars == << hpc, handler, event, status, reason, attempt, bucketExists,
               indexExists, storeCalls, lastOutcome, sent, delivered, escaped,
               faulted, last, prev, invocations >>

invokeVars == << ipc, payload, toolOutput, response, invokeResult, agentCalls >>

ingestVars == << gpc, ingestEvent, recordIdx, chunkIdx, vectorsBuf, indexContents,
                 overwritten, putCalls, ingestResult, ingestEvents,
                 sourceBucket, faultBudget, embedded >>

concurrentVars == << cpc, cargs, cseen, cframe, cresult, moduleConfig >>

vars == << searchVars, provVars, invokeVars, ingestVars, concurrentVars >>

\* what the actions of one component leave alone
notSearchVars == << provVars, invokeVars, ingestVars, concurrentVars >>
notProvVars == << searchVars, invokeVars, ingestVars, concurrentVars >>
notInvokeVars == << searchVars, provVars, ingestVars, concurrentVars >>
notIngestVars == << searchVars, provVars, invokeVars, concurrentVars >>
notConcurrentVars == << searchVars, provVars, invokeVars, ingestVars >>

-----------------------------------------------------------------------------
(* Bounds of the model *)

\* number of documents of the corpus fixture the index holds
CorpusSize == 6

\* number of lifecycle events delivered to the provisioning handlers
MaxInvocations == 2

\* length of the message text of the envelope handed to invoke
MaxMsgLen == 2

\* layers of JSON string quoting the agent transport wraps the payload in
MaxWraps == 2

\* number of words of the queries persona inference is applied to
MaxQueryLen == 3

\* number of file records one ingestion event carries
MaxRecords == 2

\* number of ingestion events delivered to the ingestion handler
MaxIngestEvents == 2

\* embedding faults followed in the ingestion of the bulk spreadsheet
MaxEmbeddingFaults == 1

\* number of documents of the corpus the concurrent invocations can be answered with
ConcurrentCorpus == 2

-----------------------------------------------------------------------------
(* Generic helpers *)

Min(a, b) == IF a < b THEN a ELSE b
Max(a, b) == IF a > b THEN a ELSE b
Abs(a) == IF a < 0 THEN -a ELSE a

RECURSIVE GCD(_, _)
GCD(a, b) == IF b = 0 THEN a ELSE GCD(b, a % b)

\* exact rationals: <<n, d>> with d > 0, in lowest terms
Rat(n, d) ==
  LET s == IF d < 0 THEN -1 ELSE 1
      g == GCD(Abs(n), Abs(d))
  IN  IF n = 0 THEN << 0, 1 >> ELSE << (s * n) \div g, (s * d) \div g >>
RAdd(a, b) == Rat(a[1] * b[2] + b[1] * a[2], a[2] * b[2])
RMul(a, b) == Rat(a[1] * b[1], a[2] * b[2])
RDiv(a, b) == Rat(a[1] * b[2], a[2] * b[1])
RLess(a, b) == a[1] * b[2] < b[1] * a[2]
RLeq(a, b) == a[1] * b[2] <= b[1] * a[2]
RZero == Rat(0, 1)

RECURSIVE SumSeq(_)
SumSeq(s) == IF s = << >> THEN 0 ELSE Head(s) + SumSeq(Tail(s))

RECURSIVE Flatten(_)
\* the concatenation of the sequences of ss, by halves
Flatten(ss) ==
  IF ss = << >> THEN << >>
  ELSE IF Len(ss) = 1 THEN ss[1]
  ELSE LET half == Len(ss) \div 2
       IN  Flatten(SubSeq(ss, 1, half)) \o Flatten(SubSeq(ss, half + 1, Len(ss)))

RECURSIVE SelectSeqIdx(_, _)
\* the subsequence of s at the (increasing) positions of the set idx
SelectSeqIdx(s, idx) ==
  IF s = << >> THEN << >>
  ELSE LET rest == SelectSeqIdx(SubSeq(s, 1, Len(s) - 1), idx)
       IN  IF Len(s) \in idx THEN Append(rest, s[Len(s)]) ELSE rest

-----------------------------------------------------------------------------
(* Text: str.lower, str.split, str.count *)

\* pairs <<needle, token>> of the vocabulary where needle is a proper
\* substring of token (each occurs once)
ProperSubstr ==
  { << "leader", "leadership" >>, << "ai", "said" >>, << "agent", "agentic" >>,
    << "security", "cybersecurity" >>, << "secure", "secured" >>,
    << "manager", "managers" >>, << "api", "apis" >> }

\* tokens of the vocabulary of length < 2 (every other token has length >= 2)
ShortTokens == { "a" }

\* str.count(needle) for a needle of one word in a text
CountWord(text, w) ==
  Cardinality({ i \in 1..Len(text) : text[i] = w \/ << w, text[i] >> \in ProperSubstr })

\* str.count(needle) for a needle of several words: windows equal to it
CountPhrase(text, p) ==
  Cardinality({ i \in 1..(Len(text) - Len(p) + 1) : SubSeq(text, i, i + Len(p) - 1) = p })

\* a term is a sequence of words (one word for every vocabulary term)
Count(text, term) ==
  IF Len(term) = 1 THEN CountWord(text, term[1]) ELSE CountPhrase(text, term)

\* sum(text.count(t) for t in terms)
CountAll(text, terms) == SumSeq([ i \in 1..Len(terms) |-> Count(text, terms[i]) ])

\* str.lower on the link values and fields of the fixture
Lower(s) ==
  CASE s = "Not available" -> "not available"
    [] s = "NOT AVAILABLE" -> "not available"
    [] s = "Not Available" -> "not available"
    [] s = "HTTPS://YT/3"  -> "https://yt/3"
    [] OTHER -> s

-----------------------------------------------------------------------------
(* Program constants of search_transcripts *)

TopKInitial == 10
TopKRetry == 15
\* fewer valid results than this: retry, then failure envelope
MinValid == 2
\* candidates[:5]
SlateSize == 5
\* leadership_candidates[:2]
LeadershipSlate == 2
\* sentences[:2]
SummarySentences == 2

W(w) == << w >>

leadership_terms ==
  << W("ciso"), W("leader"), W("leadership"), W("executive"), W("manager"),
     W("governance"), W("strategy"), W("compliance"), W("policy"), W("risk"),
     W("identity"), W("security"), W("authentication"), W("authorization") >>

technical_terms ==
  << W("engineer"), W("developer"), W("implementation"), W("api"), W("code"),
     W("technical"), W("tool"), W("sdk"), W("programming"), W("configuration"),
     W("mcp"), W("bedrock"), W("cognito") >>

\* synonyms.get(kw, [])
synonyms(kw) ==
  CASE kw = "ciso"     -> << << "chief", "information", "security", "officer" >>,
                             << "security", "officer" >> >>
    [] kw = "ai"       -> << << "artificial", "intelligence" >>, << "machine", "learning" >> >>
    [] kw = "security" -> << W("cybersecurity"), W("protection"), W("secure") >>
    [] kw = "agentic"  -> << W("agent"), W("autonomous"), W("intelligent") >>
    [] kw = "leader"   -> << W("executive"), W("manager"), W("director") >>
    [] kw = "engineer" -> << W("developer"), W("programmer"), W("technical") >>
    [] OTHER -> << >>

\* the four metadata fields examined by the link filter, with the key each
\* is returned under, in the order of the code
LinkFields ==
  << [ key |-> "external_youtube_link",   field |-> "External Youtube Link" ],
     [ key |-> "content_link",            field |-> "Content Link" ],
     [ key |-> "deck_link",               field |-> "Deck Link" ],
     [ key |-> "internal_broadcast_link", field |-> "Internal Broadcast Video Link" ] >>

\* dict.get(k, default)
Get(d, k, default) == IF k \in DOMAIN d THEN d[k] ELSE default

-----------------------------------------------------------------------------
(* Persona and weights (app.py 80-92) *)

leadership_conf(q) == Rat(CountAll(q, leadership_terms), Max(1, Len(q)))
technical_conf(q) == Rat(CountAll(q, technical_terms), Max(1, Len(q)))

\* variant: equal confidences resolve to leadership
InferPersona_TieLeadership(q) ==
  IF RLeq(technical_conf(q), leadership_conf(q)) THEN "leadership" ELSE "technical"

InferPersona(q) ==
  IF RLess(technical_conf(q), leadership_conf(q)) THEN "leadership"
  ELSE IF RLess(leadership_conf(q), technical_conf(q)) THEN "technical"
  ELSE "general"

\* weights, in hundredths
semantic_weight(p) ==
  IF p = "leadership" THEN Rat(80, 100)
  ELSE IF p = "technical" THEN Rat(60, 100) ELSE Rat(70, 100)
metadata_weight == Rat(5, 100)
\* variant: the metadata weight is not deducted
keyword_weight_NoMetadata(p) == RAdd(Rat(1, 1), RMul(Rat(-1, 1), semantic_weight(p)))

keyword_weight(p) == RAdd(RAdd(Rat(1, 1), RMul(Rat(-1, 1), semantic_weight(p))),
                          RMul(Rat(-1, 1), metadata_weight))

\* keywords + [syn for kw in keywords for syn in synonyms.get(kw, [])]
\* [kw for kw in query_lower.split() if len(kw) >= 2]
Keywords(q) == SelectSeq(q, LAMBDA w : w \notin ShortTokens)
AllKeywords(q) ==
  LET kws == Keywords(q)
  IN  [ i \in 1..Len(kws) |-> W(kws[i]) ]
        \o Flatten([ i \in 1..Len(kws) |-> synonyms(kws[i]) ])

-----------------------------------------------------------------------------
(* The corpus the index holds: what s3vectors.query_vectors can return *)

\* metadata.get('Video Transcript Summary', 'No summary available.'), as sentences
NoSummary == << << "no", "summary", "available" >> >>

Doc1 ==
  [ key |-> "row-0-chunk-0", distance |-> Rat(70, 100),
    metadata |->
      ("source_text" :> << "ciso", "risk", "strategy" >>)
      @@ ("Video Transcript Summary" :> << << "ciso", "view" >>, << "risk" >>, << "more" >> >>)
      @@ ("When Was Each Topic Discussed" :> << "risk" >>)
      @@ ("External Youtube Link" :> "https://yt/1")
      @@ ("Content Link" :> "Not available")
      @@ ("Deck Link" :> "Not available")
      @@ ("Internal Broadcast Video Link" :> "Not available") ]

Doc2 ==
  [ key |-> "row-1-chunk-0", distance |-> Rat(10, 100),
    metadata |->
      ("source_text" :> << "api", "sdk", "code", "security" >>)
      @@ ("Video Transcript Summary" :> << << "sdk", "walkthrough" >> >>)
      @@ ("When Was Each Topic Discussed" :> << "api" >>)
      @@ ("Content Link" :> "")
      @@ ("Deck Link" :> "https://deck/2") ]

\* every link field unusable: placeholder in three letter cases, empty, absent
Doc3 ==
  [ key |-> "row-2-chunk-0", distance |-> Rat(5, 100),
    metadata |->
      ("source_text" :> << "leadership", "governance", "ai" >>)
      @@ ("Video Transcript Summary" :> << << "governance" >>, << "policy" >> >>)
      @@ ("When Was Each Topic Discussed" :> << >>)
      @@ ("External Youtube Link" :> "Not available")
      @@ ("Content Link" :> "NOT AVAILABLE")
      @@ ("Deck Link" :> "") ]

\* no summary, no topics, no link field at all
Doc4 ==
  [ key |-> "row-3-chunk-0", distance |-> Rat(20, 100),
    metadata |->
      ("source_text" :> << "engineer", "bedrock", "agentic", "ai" >>) ]

Doc5 ==
  [ key |-> "row-4-chunk-0", distance |-> Rat(40, 100),
    metadata |->
      ("source_text" :> << "the", "said", "a" >>)
      @@ ("Video Transcript Summary" :> << >>)
      @@ ("When Was Each Topic Discussed" :> << "security" >>)
      @@ ("Content Link" :> "https://c/5")
      @@ ("Internal Broadcast Video Link" :> "Not Available") ]

\* the same distance as Doc5: equal hybrid scores for a query matching neither
Doc6 ==
  [ key |-> "row-5-chunk-0", distance |-> Rat(40, 100),
    metadata |->
      ("source_text" :> << "security", "policy", "agentic" >>)
      @@ ("Video Transcript Summary" :> << << "policy" >> >>)
      @@ ("When Was Each Topic Discussed" :> << "agentic" >>)
      @@ ("External Youtube Link" :> "HTTPS://YT/3")
      @@ ("Deck Link" :> "https://deck/6") ]

\* a distance above 1: the semantic score is negative
Doc7 ==
  [ key |-> "row-6-chunk-0", distance |-> Rat(120, 100),
    metadata |->
      ("source_text" :> << "mcp", "tool", "apis" >>)
      @@ ("Video Transcript Summary" :> << << "tool" >> >>)
      @@ ("When Was Each Topic Discussed" :> << >>)
      @@ ("Internal Broadcast Video Link" :> "https://b/7") ]

\* an entry without 'key': result['key'] raises KeyError
DocNoKey ==
  [ distance |-> Rat(30, 100),
    metadata |-> ("source_text" :> << "ciso" >>) ]

AllDocs == << Doc1, Doc2, Doc3, Doc4, Doc5, Doc6, Doc7 >>
Corpus == SubSeq(AllDocs, 1, Min(CorpusSize, Len(AllDocs)))

\* the queries of the model: leadership, technical, general (a tie), general (no term)
Queries ==
  { << "ciso", "agentic", "ai", "security" >>,
    << "bedrock", "sdk", "a", "code" >>,
    << "security", "api" >>,
    << "the", "ai" >> }

-----------------------------------------------------------------------------
(* Hybrid scoring (app.py 122-178, repeated at 226-266) *)

Range(s) == { s[i] : i \in 1..Len(s) }

\* max((...), default=0.0) over a sequence of rationals
RECURSIVE RMaxSeq(_)
RMaxSeq(s) ==
  IF s = << >> THEN RZero
  ELSE IF Len(s) = 1 THEN s[1]
  ELSE LET m == RMaxSeq(Tail(s))
       IN  IF RLess(Head(s), m) THEN m ELSE Head(s)

\* '. '.join(sentences[:2]).strip() + '.'
TruncateSummary(sentences) ==
  SubSeq(sentences, 1, Min(SummarySentences, Len(sentences)))

\* the word tokens of the truncated summary; an empty summary is the text "."
SummaryTokens(summary) == IF Flatten(summary) = << >> THEN << "." >> ELSE Flatten(summary)

\* one iteration of the loop over vector_response['vectors'], for persona p
ScoreOne(r, q, p) ==
  LET metadata  == Get(r, "metadata", << >>)
      content   == Get(metadata, "source_text", << >>)
      sem_score == RAdd(Rat(1, 1), RMul(Rat(-1, 1), Get(r, "distance", Rat(1, 1))))
      kw_score  == Rat(CountAll(content, AllKeywords(q)), Max(1, Len(content)))
      summary   == TruncateSummary(Get(metadata, "Video Transcript Summary", NoSummary))
      topics    == Get(metadata, "When Was Each Topic Discussed", << >>)
      combined_text == content \o SummaryTokens(summary) \o topics
      terms == IF p = "leadership" THEN leadership_terms
               ELSE IF p = "technical" THEN technical_terms ELSE << >>
  IN  [ doc_id         |-> r.key,
        content        |-> content,
        metadata       |-> metadata,
        summary        |-> summary,
        semantic_score |-> sem_score,
        keyword_score  |-> kw_score,
        metadata_score |-> IF terms = << >> THEN RZero
                           ELSE Rat(CountAll(combined_text, terms),
                                    Max(1, Len(combined_text))),
        matched_terms  |-> SelectSeq(terms, LAMBDA t : Count(combined_text, t) > 0) ]

\* variant: the raw score is blended without division by the batch maximum
Normalize_Raw(score, max) == score

\* (score / max) if max > 0 else 0.0
Normalize(score, max) == IF RLess(RZero, max) THEN RDiv(score, max) ELSE RZero

\* semantic_weight * semantic + keyword_weight * norm_kw + 0.05 * norm_meta
HybridScore(c, max_kw, max_meta, p) ==
  RAdd(RAdd(RMul(semantic_weight(p), c.semantic_score),
            RMul(keyword_weight(p), Normalize(c.keyword_score, max_kw))),
       RMul(metadata_weight, Normalize(c.metadata_score, max_meta)))

\* result['key'] raises KeyError on an entry that has no key
RaisesKeyError(vectors) == \E i \in 1..Len(vectors) : "key" \notin DOMAIN vectors[i]

\* the scored candidates of a batch, in the order of the batch
ScoreBatch(vectors, q, p) ==
  LET raw == [ i \in 1..Len(vectors) |-> ScoreOne(vectors[i], q, p) ]
      max_kw   == RMaxSeq([ i \in 1..Len(raw) |-> raw[i].keyword_score ])
      max_meta == RMaxSeq([ i \in 1..Len(raw) |-> raw[i].metadata_score ])
  IN  [ i \in 1..Len(raw) |->
          [ doc_id         |-> raw[i].doc_id,
            content        |-> raw[i].content,
            metadata       |-> raw[i].metadata,
            summary        |-> raw[i].summary,
            semantic_score |-> raw[i].semantic_score,
            keyword_score  |-> raw[i].keyword_score,
            metadata_score |-> raw[i].metadata_score,
            matched_terms  |-> raw[i].matched_terms,
            hybrid_score   |-> HybridScore(raw[i], max_kw, max_meta, p) ] ]

-----------------------------------------------------------------------------
(* Clustering (app.py 180-194, repeated at 268-280) *)

\* variant: a descending sort that reverses the order of equal scores
RECURSIVE SortDesc_TiesReversed(_)
SortDesc_TiesReversed(s) ==
  IF s = << >> THEN << >>
  ELSE LET front == SortDesc_TiesReversed(SubSeq(s, 1, Len(s) - 1))
           x == s[Len(s)]
           k == Cardinality({ i \in 1..Len(front) :
                                RLess(x.hybrid_score, front[i].hybrid_score) })
       IN  SubSeq(front, 1, k) \o << x >> \o SubSeq(front, k + 1, Len(front))

\* list.sort(key=hybrid_score, reverse=True): stable, equal scores keep their order
RECURSIVE SortDesc(_)
SortDesc(s) ==
  IF s = << >> THEN << >>
  ELSE LET front == SortDesc(SubSeq(s, 1, Len(s) - 1))
           x == s[Len(s)]
           k == Cardinality({ i \in 1..Len(front) :
                                RLeq(x.hybrid_score, front[i].hybrid_score) })
       IN  SubSeq(front, 1, k) \o << x >> \o SubSeq(front, k + 1, Len(front))

\* leadership term count in content >= technical term count
LeadershipLeaning(c) ==
  CountAll(c.content, leadership_terms) >= CountAll(c.content, technical_terms)

Prefix(s, n) == SubSeq(s, 1, Min(n, Len(s)))

\* top_docs for the scored candidates cs and persona p
Cluster(cs, p) ==
  LET leadership_candidates == SelectSeq(cs, LeadershipLeaning)
      technical_candidates ==
        SelectSeq(cs, LAMBDA c : c \notin Range(leadership_candidates))
      lead2 == Prefix(SortDesc(leadership_candidates), LeadershipSlate)
  IN  IF p = "leadership" /\ leadership_candidates # << >>
      THEN IF Len(lead2) < LeadershipSlate /\ technical_candidates # << >>
           THEN Append(lead2, SortDesc(technical_candidates)[1])
           ELSE lead2
      ELSE Prefix(SortDesc(cs), SlateSize)

\* the candidates list after the clustering step (sorted in place in the else branch)
CandidatesAfterCluster(cs, p) ==
  IF p = "leadership" /\ SelectSeq(cs, LeadershipLeaning) # << >> THEN cs ELSE SortDesc(cs)

-----------------------------------------------------------------------------
(* Link filter (app.py 196-217, repeated at 282-300) *)

\* variant: the placeholder is compared without lower-casing
Usable_CaseSensitive(value) == value # "" /\ value \notin { "not available", "" }

\* value and value.lower() not in ["not available", ""]
Usable(value) == value # "" /\ Lower(value) \notin { "not available", "" }

\* the links mapping of a candidate: the usable fields, under their output keys
Links(metadata) ==
  LET usable == { i \in 1..Len(LinkFields) : Usable(Get(metadata, LinkFields[i].field, "")) }
      keyOf == [ k \in { LinkFields[i].key : i \in usable } |->
                   CHOOSE i \in usable : LinkFields[i].key = k ]
  IN  [ k \in DOMAIN keyOf |-> metadata[LinkFields[keyOf[k]].field] ]

\* if links: valid_results.append({...})
LinkFilter(docs) ==
  LET kept == SelectSeq(docs, LAMBDA d : Links(d.metadata) # << >>)
  IN  [ i \in 1..Len(kept) |->
          [ doc_id       |-> kept[i].doc_id,
            links        |-> Links(kept[i].metadata),
            hybrid_score |-> kept[i].hybrid_score,
            summary      |-> kept[i].summary ] ]

-----------------------------------------------------------------------------
(* Envelopes returned by search_transcripts *)

NotReached == << [ doc_id |-> "not reached" ] >>
NoResult == [ kind |-> "none" ]

Returned(output) == [ kind |-> "return", output |-> output ]
Raised(exception) == [ kind |-> "raise", exception |-> exception ]

MessageEnvelope(m) == [ message |-> m ]

InsufficientRecommendation ==
  [ text |-> "Insufficient relevant videos found to provide a recommendation." ]

\* f"ERROR: Found only {len(valid_results)} video(s) with valid links; at least 2 required"
FoundOnlyMessage(n) ==
  IF n = 0 THEN "ERROR: Found only 0 video(s) with valid links; at least 2 required"
  ELSE "ERROR: Found only 1 video(s) with valid links; at least 2 required"

\* "Highly recommended" if filtered_results[0]['hybrid_score'] > 0.5
RecommendationLevel(score) ==
  IF RLess(Rat(1, 2), score) THEN "Highly recommended" ELSE "Moderately relevant"

\* variant: the floor is 1 valid result instead of 2
PrepareOutput_FloorOfOne(valid) ==
  IF Len(valid) < 1
  THEN [ message |-> FoundOnlyMessage(Len(valid)),
         results |-> valid,
         final_recommendation |-> InsufficientRecommendation ]
  ELSE LET filtered_results == SubSeq(valid, 1, Min(2, Len(valid)))
       IN  [ results |-> [ i \in 1..Len(filtered_results) |->
                             [ doc_id       |-> filtered_results[i].doc_id,
                               links        |-> filtered_results[i].links,
                               hybrid_score |-> filtered_results[i].hybrid_score ] ],
             final_recommendation |->
               [ text   |-> RecommendationLevel(filtered_results[1].hybrid_score),
                 video1 |-> << filtered_results[1].doc_id, filtered_results[1].summary >> ] ]

\* variant: the failure envelope drops the partial results
PrepareOutput_DropsPartial(valid) ==
  IF Len(valid) < MinValid
  THEN [ message |-> FoundOnlyMessage(Len(valid)),
         results |-> << >>,
         final_recommendation |-> InsufficientRecommendation ]
  ELSE LET filtered_results == SubSeq(valid, 1, 2)
       IN  [ results |-> [ i \in 1..Len(filtered_results) |->
                             [ doc_id       |-> filtered_results[i].doc_id,
                               links        |-> filtered_results[i].links,
                               hybrid_score |-> filtered_results[i].hybrid_score ] ],
             final_recommendation |->
               [ text   |-> RecommendationLevel(filtered_results[1].hybrid_score),
                 video1 |-> << filtered_results[1].doc_id, filtered_results[1].summary >>,
                 video2 |-> << filtered_results[2].doc_id, filtered_results[2].summary >> ] ]

\* steps 8 and 9 (app.py 303-338)
PrepareOutput(valid) ==
  IF Len(valid) < MinValid
  THEN [ message |-> FoundOnlyMessage(Len(valid)),
         results |-> valid,
         final_recommendation |-> InsufficientRecommendation ]
  ELSE LET filtered_results == SubSeq(valid, 1, 2)
       IN  [ results |-> [ i \in 1..Len(filtered_results) |->
                             [ doc_id       |-> filtered_results[i].doc_id,
                               links        |-> filtered_results[i].links,
                               hybrid_score |-> filtered_results[i].hybrid_score ] ],
             final_recommendation |->
               [ text   |-> RecommendationLevel(filtered_results[1].hybrid_score),
                 video1 |-> << filtered_results[1].doc_id, filtered_results[1].summary >>,
                 video2 |-> << filtered_results[2].doc_id, filtered_results[2].summary >> ] ]

-----------------------------------------------------------------------------
(* What the external services can answer *)

\* session.client(...): built, botocore ClientError, or any other exception
\* (botocore raises UnknownServiceError / NoRegionError, which are no ClientError)
ClientOutcomes == { "ok", "ClientError", "UnknownServiceError" }

\* bedrock.invoke_model: a body with an embedding, a body without one, or an error
EmbeddingOutcomes == { "ok", "missing", "ClientError", "Exception" }

\* every subsequence of the corpus, in corpus order
Batches == { SelectSeqIdx(Corpus, idx) : idx \in SUBSET (1..Len(Corpus)) }

\* s3vectors.query_vectors(topK=k): at most k vectors of the corpus, an entry
\* without a key, a response without 'vectors', or an error
VectorResponses(k) ==
  { [ kind |-> "ok", vectors |-> b ] : b \in { x \in Batches : Len(x) <= k } }
    \cup { [ kind |-> "ok", vectors |-> << DocNoKey >> ],
           [ kind |-> "novectors" ], [ kind |-> "ClientError" ], [ kind |-> "Exception" ] }

\* variant: only a response without the 'vectors' key counts, an empty list does not
NoVectors_AbsentOnly(resp) == resp.kind = "novectors"

\* not vector_response.get('vectors')
NoVectors(resp) == resp.kind = "novectors" \/ resp.vectors = << >>

-----------------------------------------------------------------------------
(* search_transcripts as a state machine: one action per external call *)

SearchInit ==
  /\ pc = "clients"
  /\ query \in Queries
  /\ persona = "unset"
  /\ candidates = << >>
  /\ top_docs = << >>
  /\ valid_results = << >>
  /\ result = NoResult
  /\ embedCalls = 0
  /\ embedding = "none"
  /\ vectorQueries = << >>
  /\ responses = << >>
  /\ initialValid = NotReached

Finish(r) == pc' = "done" /\ result' = r

\* app.py 65-75: only ClientError is caught around session.client
CreateClients ==
  /\ pc = "clients"
  /\ UNCHANGED notSearchVars
  /\ \E o \in ClientOutcomes :
       CASE o = "ok" -> pc' = "persona" /\ result' = result
         [] o = "ClientError" -> Finish(Returned(MessageEnvelope("ClientError")))
         [] OTHER -> Finish(Raised(o))
  /\ UNCHANGED << query, persona, candidates, top_docs, valid_results,
                  embedCalls, embedding, vectorQueries, responses, initialValid >>

\* app.py 78-92
InferPersonaStep ==
  /\ pc = "persona"
  /\ UNCHANGED notSearchVars
  /\ persona' = InferPersona(query)
  /\ pc' = "embed"
  /\ UNCHANGED << query, candidates, top_docs, valid_results, result,
                  embedCalls, embedding, vectorQueries, responses, initialValid >>

\* app.py 94-105
InvokeModel ==
  /\ pc = "embed"
  /\ UNCHANGED notSearchVars
  /\ embedCalls' = embedCalls + 1
  /\ \E o \in EmbeddingOutcomes :
       /\ embedding' = o
       /\ CASE o = "ok" -> pc' = "query" /\ result' = result
            [] o = "missing" -> Finish(Returned(MessageEnvelope("NO_RELEVANT_OUTPUT")))
            [] o = "ClientError" -> Finish(Returned(MessageEnvelope("ClientError")))
            [] OTHER -> Finish(Returned(MessageEnvelope("Exception")))
  /\ UNCHANGED << query, persona, candidates, top_docs, valid_results,
                  vectorQueries, responses, initialValid >>

\* scoring, clustering and link filtering of one batch
RunPass(vectors) ==
  LET scored == ScoreBatch(vectors, query, persona)
      slate == Cluster(scored, persona)
  IN  /\ candidates' = CandidatesAfterCluster(scored, persona)
      /\ top_docs' = slate
      /\ valid_results' = LinkFilter(slate)

\* variant: retry only when no valid result at all was found
NeedsRetry_OnlyWhenEmpty(valid) == Len(valid) < 1

\* if len(valid_results) < 2: retry
NeedsRetry(valid) == Len(valid) < MinValid

\* app.py 107-217: the initial query (topK = 10) and the first pass
QueryInitial ==
  /\ pc = "query"
  /\ UNCHANGED notSearchVars
  /\ vectorQueries' = Append(vectorQueries, TopKInitial)
  /\ \E resp \in VectorResponses(TopKInitial) :
       /\ responses' = Append(responses, resp)
       /\ CASE resp.kind = "ClientError" ->
                 /\ Finish(Returned(MessageEnvelope("ClientError")))
                 /\ UNCHANGED << candidates, top_docs, valid_results, initialValid >>
            [] resp.kind = "Exception" ->
                 /\ Finish(Returned(MessageEnvelope("Exception")))
                 /\ UNCHANGED << candidates, top_docs, valid_results, initialValid >>
            [] resp.kind \notin { "ClientError", "Exception" } /\ NoVectors(resp) ->
                 /\ Finish(Returned(MessageEnvelope("NO_RELEVANT_OUTPUT")))
                 /\ UNCHANGED << candidates, top_docs, valid_results, initialValid >>
            [] OTHER ->
                 IF RaisesKeyError(resp.vectors)
                 THEN /\ Finish(Returned(MessageEnvelope("Exception")))
                      /\ UNCHANGED << candidates, top_docs, valid_results, initialValid >>
                 ELSE /\ RunPass(resp.vectors)
                      /\ initialValid' = valid_results'
                      /\ pc' = IF NeedsRetry(valid_results') THEN "retry" ELSE "output"
                      /\ result' = result
  /\ UNCHANGED << query, persona, embedCalls, embedding >>

\* app.py 219-301: the retry query (topK = 15) and the second pass
QueryRetry ==
  /\ pc = "retry"
  /\ UNCHANGED notSearchVars
  /\ vectorQueries' = Append(vectorQueries, TopKRetry)
  /\ \E resp \in VectorResponses(TopKRetry) :
       /\ responses' = Append(responses, resp)
       /\ CASE resp.kind = "ClientError" ->
                 /\ Finish(Returned(MessageEnvelope("ClientError")))
                 /\ UNCHANGED << candidates, top_docs, valid_results >>
            [] resp.kind = "Exception" ->
                 /\ Finish(Returned(MessageEnvelope("Exception")))
                 /\ UNCHANGED << candidates, top_docs, valid_results >>
            [] resp.kind \notin { "ClientError", "Exception" } /\ NoVectors(resp) ->
                 /\ pc' = "output" /\ result' = result
                 /\ UNCHANGED << candidates, top_docs, valid_results >>
            [] OTHER ->
                 IF RaisesKeyError(resp.vectors)
                 THEN /\ Finish(Returned(MessageEnvelope("Exception")))
                      /\ candidates' = << >>
                      /\ UNCHANGED << top_docs, valid_results >>
                 ELSE /\ RunPass(resp.vectors)
                      /\ pc' = "output" /\ result' = result
  /\ UNCHANGED << query, persona, embedCalls, embedding, initialValid >>

\* app.py 303-338
Output ==
  /\ pc = "output"
  /\ UNCHANGED notSearchVars
  /\ Finish(Returned(PrepareOutput(valid_results)))
  /\ UNCHANGED << query, persona, candidates, top_docs, valid_results,
                  embedCalls, embedding, vectorQueries, responses, initialValid >>

SearchNext ==
  \/ CreateClients
  \/ InferPersonaStep
  \/ InvokeModel
  \/ QueryInitial
  \/ QueryRetry
  \/ Output

-----------------------------------------------------------------------------
(* cfnresponse.py *)

SUCCESS == "SUCCESS"
FAILED == "FAILED"

\* variant: the scheme of the callback URL is not checked before the PUT
PutDelivers_AnyScheme(url, put) == url # "absent" /\ put = "ok"

\* cfnresponse.py 36-39: the PUT is made only to an https URL, and the message
\* is accepted when the PUT raises nothing
PutDelivers(url, put) == url = "https" /\ put = "ok"

\* what requests.put / raise_for_status can do
PutOutcomes == { "ok", "RequestException" }

\* the exception send() raises, "none" when it returns
SendRaises(url, put) ==
  IF url = "absent" THEN "KeyError"
  ELSE IF url # "https" THEN "ValueError"
  ELSE IF put # "ok" THEN "RequestException" ELSE "none"

-----------------------------------------------------------------------------
(* The provisioning handlers: clean_index.handler ("index") and            *)
(* s3vector_support_app.handler ("bucket")                                 *)

max_retries == 3
\* remaining_time < 10000
MinRemainingMillis == 10000

Handlers == { "bucket", "index" }

\* RequestType ("absent": the key is missing), ResourceProperties (complete or
\* lacking a required parameter), the callback URL, and the remaining time the
\* context reports; setup "raises" when the code before the retry loop throws
Events ==
  [ RequestType : { "absent", "Create", "Update", "Delete" },
    properties  : { "complete", "missing" },
    ResponseURL : { "https", "http", "absent" },
    remaining   : { MinRemainingMillis - 1, MinRemainingMillis },
    setup       : { "ok", "raises" } ]

\* error codes of the ClientError a store call can raise, and "Exception" for
\* an exception that is no ClientError
ThrottlingCodes == { "ThrottlingException", "TooManyRequestsException" }
TransientFaults == ThrottlingCodes \cup { "AccessDeniedException", "Exception" }

\* clean_index.py 71 / s3vector_support_app.py 67
NotFoundCodes(h) ==
  IF h = "index" THEN { "ResourceNotFoundException", "IndexNotFound" }
  ELSE { "ResourceNotFoundException", "BucketNotFound" }

\* the store operation one loop iteration calls ("none": a no-op branch)
StoreOperation(h, request_type) ==
  IF request_type = "Create" /\ h = "bucket" THEN "create_vector_bucket"
  ELSE IF request_type = "Delete" /\ h = "bucket" THEN "delete_vector_bucket"
  ELSE IF request_type = "Delete" /\ h = "index" THEN "delete_index"
  ELSE "none"

\* what the store answers to an operation in its current state, a transient
\* fault aside: creating a bucket that exists is a conflict, deleting a bucket
\* that still holds an index is a conflict, deleting what does not exist is
\* answered with the not-found code the handlers test for
StoreAnswer(op) ==
  CASE op = "create_vector_bucket" ->
         IF bucketExists THEN "ConflictException" ELSE "ok"
    [] op = "delete_vector_bucket" ->
         IF ~bucketExists THEN "ResourceNotFoundException"
         ELSE IF indexExists THEN "ConflictException" ELSE "ok"
    [] op = "delete_index" ->
         IF ~indexExists THEN "ResourceNotFoundException" ELSE "ok"
    [] OTHER -> "ok"

\* the store after operation op answered "ok"
StoreAfter(op) ==
  CASE op = "create_vector_bucket" -> [ bucket |-> TRUE, index |-> indexExists ]
    [] op = "delete_vector_bucket" -> [ bucket |-> FALSE, index |-> FALSE ]
    [] op = "delete_index" -> [ bucket |-> bucketExists, index |-> FALSE ]
    [] OTHER -> [ bucket |-> bucketExists, index |-> indexExists ]

NoInvocation == [ handler |-> "none" ]

ProvInit ==
  /\ hpc = "idle"
  /\ handler = "none"
  /\ event = [ RequestType |-> "absent" ]
  /\ status = SUCCESS
  /\ reason = ""
  /\ attempt = 0
  /\ bucketExists \in BOOLEAN
  /\ indexExists \in BOOLEAN
  /\ indexExists => bucketExists
  /\ storeCalls = << >>
  /\ lastOutcome = "none"
  /\ sent = << >>
  /\ delivered = << >>
  /\ escaped = "none"
  /\ faulted = FALSE
  /\ last = NoInvocation
  /\ prev = NoInvocation
  /\ invocations = 0

\* the reason of the early return taken before the retry loop, "" if none
\* (clean_index.py 18-42, s3vector_support_app.py 18-40)
EarlyReturn(ev) ==
  IF ev.RequestType = "absent" THEN "Missing RequestType"
  ELSE IF ev.properties = "missing" THEN "Missing parameters"
  ELSE IF ev.remaining < MinRemainingMillis THEN "Insufficient time"
  ELSE ""

\* handler(event, context) up to the retry loop
Invoke ==
  /\ hpc = "idle"
  /\ UNCHANGED notProvVars
  /\ invocations < MaxInvocations
  /\ invocations' = invocations + 1
  /\ \E h \in Handlers, ev \in Events :
       /\ handler' = h
       /\ event' = ev
       /\ IF EarlyReturn(ev) # ""
          THEN status' = FAILED /\ reason' = EarlyReturn(ev) /\ hpc' = "send"
          ELSE IF ev.setup = "raises"
          THEN status' = FAILED /\ reason' = "Unhandled exception" /\ hpc' = "send"
          ELSE status' = SUCCESS /\ reason' = "" /\ hpc' = "loop"
  /\ attempt' = 0
  /\ storeCalls' = << >>
  /\ lastOutcome' = "none"
  /\ sent' = << >>
  /\ delivered' = << >>
  /\ escaped' = "none"
  /\ faulted' = FALSE
  /\ UNCHANGED << bucketExists, indexExists, last, prev >>

\* the loop is left: the for-else clause, then the finally block
LeaveLoop(st, rs) == status' = st /\ reason' = rs /\ hpc' = "send" /\ attempt' = attempt

\* variant: a failed attempt that is retried leaves the status at FAILED
Continue_MarksFailed ==
  status' = FAILED /\ reason' = reason /\ hpc' = "loop" /\ attempt' = attempt + 1

\* continue: the next iteration of the retry loop
Continue == status' = status /\ reason' = reason /\ hpc' = "loop" /\ attempt' = attempt + 1

\* variant: a failed delete is re-attempted whatever its error code
RetryDelete_AnyCode(code, n) == n < max_retries - 1

\* clean_index.py 74 / s3vector_support_app.py 70: a failed delete is
\* re-attempted after a throttling error, unless this was the last attempt
RetryDelete(code, n) == code \in ThrottlingCodes /\ n < max_retries - 1

\* one iteration of `for attempt in range(max_retries)`
\* (clean_index.py 52-99, s3vector_support_app.py 50-96)
Attempt ==
  /\ hpc = "loop"
  /\ UNCHANGED notProvVars
  /\ attempt < max_retries
  /\ LET op == StoreOperation(handler, event.RequestType)
     IN  IF op = "none"
         THEN /\ LeaveLoop(status, IF event.RequestType = "Create"
                                   THEN "Created (no-op)" ELSE "Updated (no-op)")
              /\ UNCHANGED << bucketExists, indexExists, storeCalls, lastOutcome, faulted >>
         ELSE \E o \in { StoreAnswer(op) } \cup TransientFaults :
                /\ storeCalls' = Append(storeCalls, op)
                /\ lastOutcome' = o
                /\ faulted' = (faulted \/ o # StoreAnswer(op))
                /\ bucketExists' = IF o = "ok" THEN StoreAfter(op).bucket ELSE bucketExists
                /\ indexExists' = IF o = "ok" THEN StoreAfter(op).index ELSE indexExists
                /\ IF o = "ok"
                   THEN LeaveLoop(status, IF op = "create_vector_bucket"
                                          THEN "Created bucket" ELSE "Deleted")
                   ELSE IF op = "create_vector_bucket"
                   THEN \* the outer `except Exception`
                        IF attempt < max_retries - 1
                        THEN Continue
                        ELSE LeaveLoop(FAILED, "Critical error during Create")
                   ELSE \* the handlers around the delete call
                        IF o = "Exception"
                        THEN LeaveLoop(FAILED, "Unexpected error")
                        ELSE IF o \in NotFoundCodes(handler)
                        THEN LeaveLoop(status, "not found, no deletion needed")
                        ELSE IF RetryDelete(o, attempt)
                        THEN Continue
                        ELSE LeaveLoop(FAILED, "Failed to delete")
  /\ UNCHANGED << handler, event, sent, delivered, escaped, last, prev, invocations >>

\* the finally block: cfnresponse.send(event, context, status, ...)
Send ==
  /\ hpc = "send"
  /\ UNCHANGED notProvVars
  /\ \E put \in PutOutcomes :
       /\ delivered' = IF PutDelivers(event.ResponseURL, put)
                       THEN Append(delivered, status) ELSE delivered
       /\ escaped' = SendRaises(event.ResponseURL, put)
  /\ sent' = Append(sent, status)
  /\ hpc' = "idle"
  /\ prev' = last
  /\ last' = [ handler |-> handler, RequestType |-> event.RequestType,
               properties |-> event.properties, status |-> status,
               faulted |-> faulted, early |-> (storeCalls = << >> /\ reason
                 \in { "Missing RequestType", "Missing parameters",
                       "Insufficient time", "Unhandled exception" }),
               bucket |-> bucketExists, index |-> indexExists ]
  /\ UNCHANGED << handler, event, status, reason, attempt, bucketExists, indexExists,
                  storeCalls, lastOutcome, faulted, invocations >>

ProvNext ==
  \/ Invoke
  \/ Attempt
  \/ Send

-----------------------------------------------------------------------------
(* Strings as sequences of characters: str.strip, str.rstrip, str.replace,  *)
(* json.dumps and json.loads (app.py 354-370)                               *)

QUOTE == "\""
BACKSLASH == "\\"
NEWLINE == "\n"
\* the characters json.loads decodes \b, \f, \r, \t to
BACKSPACE == "BS"
FORMFEED == "FF"
RETURN == "CR"
TAB == "TAB"

RECURSIVE LStrip(_, _)
LStrip(s, chars) ==
  IF s # << >> /\ Head(s) \in chars THEN LStrip(Tail(s), chars) ELSE s

RECURSIVE RStrip(_, _)
RStrip(s, chars) ==
  IF s # << >> /\ s[Len(s)] \in chars THEN RStrip(SubSeq(s, 1, Len(s) - 1), chars) ELSE s

\* s.strip(chars)
Strip(s, chars) == RStrip(LStrip(s, chars), chars)

RECURSIVE Replace(_, _, _)
\* s.replace(old, new): every non-overlapping occurrence, left to right
Replace(s, old, new) ==
  IF Len(s) < Len(old) THEN s
  ELSE IF SubSeq(s, 1, Len(old)) = old
  THEN new \o Replace(SubSeq(s, Len(old) + 1, Len(s)), old, new)
  ELSE << Head(s) >> \o Replace(Tail(s), old, new)

RECURSIVE JsonEscape(_)
\* the body of the JSON string literal json.dumps writes for the text s
JsonEscape(s) ==
  IF s = << >> THEN << >>
  ELSE LET c == Head(s)
       IN  (CASE c = QUOTE -> << BACKSLASH, QUOTE >>
              [] c = BACKSLASH -> << BACKSLASH, BACKSLASH >>
              [] c = NEWLINE -> << BACKSLASH, "n" >>
              [] OTHER -> << c >>) \o JsonEscape(Tail(s))

\* json.dumps(s) for a str s
DumpsStr(s) == << QUOTE >> \o JsonEscape(s) \o << QUOTE >>

\* json.dumps({"output": {"message": m}})
ObjPrefix ==
  << "{", QUOTE, "o", "u", "t", "p", "u", "t", QUOTE, ":", " ", "{", QUOTE,
     "m", "e", "s", "s", "a", "g", "e", QUOTE, ":", " ", QUOTE >>
ObjSuffix == << QUOTE, "}", "}" >>
DumpsEnvelope(e) == ObjPrefix \o JsonEscape(e.output.message) \o ObjSuffix

JsonError == [ ok |-> FALSE, text |-> << >> ]

RECURSIVE JsonUnescape(_)
\* the text of a JSON string literal with body b; not ok when b holds a bare
\* quote, a raw control character or an invalid escape
JsonUnescape(b) ==
  IF b = << >> THEN [ ok |-> TRUE, text |-> << >> ]
  ELSE IF Head(b) \in { QUOTE, NEWLINE } THEN JsonError
  ELSE IF Head(b) = BACKSLASH
  THEN IF Len(b) < 2 \/ b[2] \notin { QUOTE, BACKSLASH, "/", "b", "f", "n", "r", "t" }
       THEN JsonError
       ELSE LET rest == JsonUnescape(SubSeq(b, 3, Len(b)))
                c == CASE b[2] = "b" -> BACKSPACE
                       [] b[2] = "f" -> FORMFEED
                       [] b[2] = "n" -> NEWLINE
                       [] b[2] = "r" -> RETURN
                       [] b[2] = "t" -> TAB
                       [] OTHER -> b[2]
            IN  IF rest.ok THEN [ ok |-> TRUE, text |-> << c >> \o rest.text ] ELSE JsonError
  ELSE LET rest == JsonUnescape(Tail(b))
       IN  IF rest.ok THEN [ ok |-> TRUE, text |-> << Head(b) >> \o rest.text ] ELSE JsonError

HasPrefix(s, pre) == Len(s) >= Len(pre) /\ SubSeq(s, 1, Len(pre)) = pre
HasSuffix(s, suf) == Len(s) >= Len(suf) /\ SubSeq(s, Len(s) - Len(suf) + 1, Len(s)) = suf

JSONDecodeErrorMessage ==
  << "J", "S", "O", "N", "D", "e", "c", "o", "d", "e", "E", "r", "r", "o", "r" >>

\* json.loads(t), for the texts the model produces: an object of the shape of
\* the envelope, a JSON string literal (a str), else JSONDecodeError
Loads(t) ==
  LET objBody == SubSeq(t, Len(ObjPrefix) + 1, Len(t) - Len(ObjSuffix))
      strBody == SubSeq(t, 2, Len(t) - 1)
  IN  IF /\ Len(t) >= Len(ObjPrefix) + Len(ObjSuffix)
         /\ HasPrefix(t, ObjPrefix) /\ HasSuffix(t, ObjSuffix)
         /\ JsonUnescape(objBody).ok
      THEN [ kind |-> "dict", output |-> [ message |-> JsonUnescape(objBody).text ] ]
      ELSE IF Len(t) >= 2 /\ Head(t) = QUOTE /\ t[Len(t)] = QUOTE /\ JsonUnescape(strBody).ok
      THEN [ kind |-> "str", text |-> JsonUnescape(strBody).text ]
      ELSE [ kind |-> "JSONDecodeError" ]

-----------------------------------------------------------------------------
(* invoke (app.py 354-370) *)

StripChars == { "b", "'", QUOTE }

\* r.strip("b'\"").rstrip("'")
StripFragment(r) == RStrip(Strip(r, StripChars), { "'" })

\* response.strip("b'\"").rstrip("'").replace("\\\"", "\"").replace("\\\\", "\\")
Clean(text) ==
  Replace(Replace(StripFragment(text), << BACKSLASH, QUOTE >>, << QUOTE >>),
          << BACKSLASH, BACKSLASH >>, << BACKSLASH >>)

\* what invoke returns for the agent response r
ParseResponse(r) ==
  IF r.kind \notin { "str", "list" } THEN r
  ELSE LET text == IF r.kind = "list"
                   THEN Flatten([ i \in 1..Len(r.parts) |-> StripFragment(r.parts[i]) ])
                   ELSE r.text
           loaded == Loads(Clean(text))
       IN  IF loaded.kind = "JSONDecodeError"
           THEN [ kind |-> "dict", output |-> [ message |-> JSONDecodeErrorMessage ] ]
           ELSE loaded

\* the characters of the message texts of the model
MsgAlphabet == { "a", "b", "'", QUOTE, BACKSLASH, NEWLINE }

RECURSIVE StringsUpTo(_)
StringsUpTo(n) ==
  IF n = 0 THEN { << >> }
  ELSE LET shorter == StringsUpTo(n - 1)
       IN  shorter \cup { Append(t, c) : t \in { x \in shorter : Len(x) = n - 1 },
                                         c \in MsgAlphabet }

\* the message envelopes {"output": {"message": m}} of search_transcripts
Envelopes == { [ kind |-> "dict", output |-> [ message |-> m ] ] : m \in StringsUpTo(MaxMsgLen) }

RECURSIVE Wrap(_, _)
\* k layers of JSON string quoting around the text
Wrap(text, k) == IF k = 0 THEN text ELSE DumpsStr(Wrap(text, k - 1))

\* the forms in which the agent can hand over the envelope e: the object
\* itself, its JSON text under 0..MaxWraps layers of quoting, or that text
\* cut in two fragments
AgentResponses(e) ==
  LET texts == { Wrap(DumpsEnvelope(e), k) : k \in 0..MaxWraps }
  IN  { e }
        \cup { [ kind |-> "str", text |-> t ] : t \in texts }
        \cup UNION { { [ kind |-> "list",
                         parts |-> << SubSeq(t, 1, i), SubSeq(t, i + 1, Len(t)) >> ] :
                       i \in 1..(Len(t) - 1) } : t \in texts }

NoEnvelope == [ kind |-> "none" ]

InvokeInit ==
  /\ ipc = "start"
  /\ payload \in { "absent", "empty", "given" }
  /\ toolOutput = NoEnvelope
  /\ response = NoEnvelope
  /\ invokeResult = NoEnvelope
  /\ agentCalls = 0

InvokeIdle ==
  /\ ipc = "off"
  /\ payload = "absent"
  /\ toolOutput = NoEnvelope
  /\ response = NoEnvelope
  /\ invokeResult = NoEnvelope
  /\ agentCalls = 0

\* variant: only a payload without the key counts, an empty prompt does not
NoPrompt_AbsentOnly(p) == p = "absent"

\* prompt = payload.get("prompt"); not prompt
NoPrompt(p) == p \in { "absent", "empty" }

\* ({"output": {"error": "No prompt provided"}}, 400)
NoPromptResponse ==
  [ kind |-> "error", output |-> [ error |-> "No prompt provided" ], code |-> 400 ]

\* app.py 356-358: if not prompt: return {"output": {"error": ...}}, 400
RejectPayload ==
  /\ ipc = "start"
  /\ UNCHANGED notInvokeVars
  /\ NoPrompt(payload)
  /\ invokeResult' = NoPromptResponse
  /\ ipc' = "done"
  /\ UNCHANGED << payload, toolOutput, response, agentCalls >>

\* app.py 359: response = content_agent(prompt); the agent runs the tool and
\* hands its envelope over in one of the forms of AgentResponses
CallAgent ==
  /\ ipc = "start"
  /\ UNCHANGED notInvokeVars
  /\ ~NoPrompt(payload)
  /\ agentCalls' = agentCalls + 1
  /\ \E e \in Envelopes :
       /\ toolOutput' = e
       /\ \E r \in AgentResponses(e) : response' = r
  /\ ipc' = "agent"
  /\ UNCHANGED << payload, invokeResult >>

\* app.py 360-370
ReturnResponse ==
  /\ ipc = "agent"
  /\ UNCHANGED notInvokeVars
  /\ invokeResult' = ParseResponse(response)
  /\ ipc' = "done"
  /\ UNCHANGED << payload, toolOutput, response, agentCalls >>

InvokeNext ==
  \/ RejectPayload
  \/ CallAgent
  \/ ReturnResponse

-----------------------------------------------------------------------------
(* The ingestion handler (create_index.py) *)

BATCH_SIZE == 100

\* the spreadsheets of the source bucket: per row of the sheet (the data frame
\* index counts from 0) the number of chunks of its transcript, 0 for a row
\* with an empty transcript
Sheets ==
  ("q1.xlsx" :> << 2, 0, 1 >>) @@ ("q2.xlsx" :> << 1 >>) @@ ("blank.xlsx" :> << 0 >>)
    @@ ("bulk.xlsx" :> [ r \in 1..(BATCH_SIZE + 1) |-> 1 ])

Files == DOMAIN Sheets

\* the small spreadsheets, and the one with more rows than a batch holds
SmallFiles == { "q1.xlsx", "q2.xlsx", "blank.xlsx" }
BulkFiles == { "bulk.xlsx" }

\* the chunks of one row, in the order of enumerate(chunks)
RowChunks(f, row_index) ==
  [ chunk_idx \in 1..Sheets[f][row_index + 1] |->
      [ file |-> f, row_index |-> row_index, chunk_idx |-> chunk_idx - 1 ] ]

\* the chunks of a file in the order the loops of lines 142-151 visit them
FileChunks(f) == Flatten([ r \in 1..Len(Sheets[f]) |-> RowChunks(f, r - 1) ])

\* f"row-{row_index}-chunk-{chunk_idx}"
VectorKey(c) == "row-" \o ToString(c.row_index) \o "-chunk-" \o ToString(c.chunk_idx)

\* the entry appended to `vectors` for chunk c
VectorEntry(c) == [ key |-> VectorKey(c), chunk |-> c ]

\* the events over the files of a bucket: 1..MaxRecords file records each
RECURSIVE RecordsUpTo(_, _)
RecordsUpTo(files, n) ==
  IF n = 0 THEN { << >> }
  ELSE LET shorter == RecordsUpTo(files, n - 1)
       IN  shorter \cup { Append(e, f) : e \in { x \in shorter : Len(x) = n - 1 }, f \in files }

IngestEvents(files) == RecordsUpTo(files, MaxRecords) \ { << >> }

\* what the calls before the chunk loop can do: get_object, read_excel, the
\* first embedding, list_indexes / create_index
SetupOutcomes == { "ok", "raises" }
\* bedrock.invoke_model for a chunk: an embedding of the index dimension, one
\* of another dimension, or an error
ChunkEmbeddingOutcomes == { "ok", "mismatch", "ClientError", "Exception" }
\* s3vectors_client.put_vectors
PutVectorsOutcomes == { "ok", "ClientError" }

\* the position of the last entry of batch before position n that has key k,
\* 0 if there is none
LastWithKey(batch, k, n) ==
  LET at == { i \in 1..(n - 1) : batch[i].key = k }
  IN  IF at = { } THEN 0 ELSE CHOOSE i \in at : \A j \in at : j <= i

\* the index after put_vectors stored the entries of batch: an entry replaces
\* whatever the index held under its key
Upsert(index, batch) ==
  [ k \in DOMAIN index \cup { batch[i].key : i \in 1..Len(batch) } |->
      LET i == LastWithKey(batch, k, Len(batch) + 1)
      IN  IF i = 0 THEN index[k] ELSE batch[i].chunk ]

\* the chunks whose vector is replaced by the vector of another chunk: what
\* the index holds under the key of an entry when the entry is stored
Replaced(index, batch) ==
  UNION { LET e == batch[i]
              j == LastWithKey(batch, e.key, i)
              held == IF j # 0 THEN { batch[j].chunk }
                      ELSE IF e.key \in DOMAIN index THEN { index[e.key] } ELSE { }
          IN  held \ { e.chunk } : i \in 1..Len(batch) }

\* _upload_batch(..., batch) with outcome o: the call is recorded, and on
\* success the index holds the batch
UploadBatch(batch, o) ==
  /\ putCalls' = Append(putCalls, [ size |-> Len(batch), outcome |-> o,
                                    chunks |-> [ i \in 1..Len(batch) |-> batch[i].chunk ] ])
  /\ indexContents' = IF o = "ok" THEN Upsert(indexContents, batch) ELSE indexContents
  /\ overwritten' = IF o = "ok" THEN overwritten \cup Replaced(indexContents, batch)
                    ELSE overwritten

EmptyIndex == [ k \in { } |-> [ file |-> "", row_index |-> 0, chunk_idx |-> 0 ] ]

IngestInit ==
  /\ gpc = "idle"
  /\ ingestEvent = << >>
  /\ recordIdx = 0
  /\ chunkIdx = 0
  /\ vectorsBuf = << >>
  /\ indexContents = EmptyIndex
  /\ overwritten = { }
  /\ putCalls = << >>
  /\ ingestResult = "none"
  /\ ingestEvents = 0
  /\ sourceBucket = SmallFiles
  /\ faultBudget = -1
  /\ embedded = << >>

IngestIdle ==
  /\ gpc = "off"
  /\ ingestEvent = << >>
  /\ recordIdx = 0
  /\ chunkIdx = 0
  /\ vectorsBuf = << >>
  /\ indexContents = EmptyIndex
  /\ overwritten = { }
  /\ putCalls = << >>
  /\ ingestResult = "none"
  /\ ingestEvents = 0
  /\ sourceBucket = SmallFiles
  /\ faultBudget = -1
  /\ embedded = << >>

\* the exception leaves the handler
IngestRaise ==
  gpc' = "idle" /\ ingestResult' = "raised"

\* the loop over event["Records"] goes on with the next record, or the handler
\* returns statusCode 200 (create_index.py 48, 192-196)
NextRecord ==
  IF recordIdx < Len(ingestEvent)
  THEN gpc' = "record" /\ recordIdx' = recordIdx + 1 /\ ingestResult' = ingestResult
  ELSE gpc' = "idle" /\ recordIdx' = recordIdx /\ ingestResult' = "200"

\* handler(event, context) up to the loop over the records (create_index.py 31-48)
IngestInvoke ==
  /\ gpc = "idle"
  /\ UNCHANGED notIngestVars
  /\ ingestEvents < MaxIngestEvents
  /\ ingestEvents' = ingestEvents + 1
  /\ \E e \in IngestEvents(sourceBucket) : ingestEvent' = e
  /\ recordIdx' = 1
  /\ chunkIdx' = 0
  /\ vectorsBuf' = << >>
  /\ putCalls' = << >>
  /\ ingestResult' = "none"
  /\ gpc' = "record"
  /\ embedded' = << >>
  /\ UNCHANGED << indexContents, overwritten, sourceBucket, faultBudget >>

\* one record up to the chunk loop: the file is read and parsed, the first
\* transcript is embedded, the index is created if absent, vectors = []
\* (create_index.py 49-140)
StartRecord ==
  /\ gpc = "record"
  /\ UNCHANGED notIngestVars
  /\ \E o \in SetupOutcomes :
       IF o = "raises" \/ FileChunks(ingestEvent[recordIdx]) = << >>
       THEN IngestRaise /\ UNCHANGED << chunkIdx, vectorsBuf >>
       ELSE gpc' = "chunk" /\ chunkIdx' = 1 /\ vectorsBuf' = << >>
            /\ ingestResult' = ingestResult
  /\ UNCHANGED << ingestEvent, recordIdx, indexContents, overwritten, putCalls,
                  ingestEvents, sourceBucket, faultBudget, embedded >>

\* one iteration of the loop over the chunks (create_index.py 151-186): every
\* exception inside it, the one of _upload_batch included, is logged and dropped
EmbedChunk ==
  /\ gpc = "chunk"
  /\ UNCHANGED notIngestVars
  /\ LET chunks == FileChunks(ingestEvent[recordIdx])
         added == Append(vectorsBuf, VectorEntry(chunks[chunkIdx]))
     IN  /\ \E o \in ChunkEmbeddingOutcomes :
              IF o # "ok"
              THEN /\ faultBudget # 0
                   /\ faultBudget' = IF faultBudget > 0 THEN faultBudget - 1 ELSE faultBudget
                   /\ UNCHANGED << vectorsBuf, indexContents, overwritten, putCalls, embedded >>
              ELSE /\ embedded' = Append(embedded, chunks[chunkIdx])
                   /\ faultBudget' = faultBudget
                   /\ IF Len(added) >= BATCH_SIZE
                      THEN \E put \in PutVectorsOutcomes :
                             /\ UploadBatch(added, put)
                             /\ vectorsBuf' = IF put = "ok" THEN << >> ELSE added
                      ELSE /\ vectorsBuf' = added
                           /\ UNCHANGED << indexContents, overwritten, putCalls >>
         /\ IF chunkIdx < Len(chunks)
            THEN chunkIdx' = chunkIdx + 1 /\ gpc' = "chunk"
            ELSE chunkIdx' = chunkIdx /\ gpc' = "flush"
  /\ UNCHANGED << ingestEvent, recordIdx, ingestResult, ingestEvents, sourceBucket >>

\* the final batch of a record (create_index.py 188-190), outside any try
FinalUpload ==
  /\ gpc = "flush"
  /\ UNCHANGED notIngestVars
  /\ IF vectorsBuf = << >>
     THEN NextRecord /\ UNCHANGED << indexContents, overwritten, putCalls >>
     ELSE \E put \in PutVectorsOutcomes :
            /\ UploadBatch(vectorsBuf, put)
            /\ IF put = "ok" THEN NextRecord
               ELSE IngestRaise /\ recordIdx' = recordIdx
  /\ UNCHANGED << ingestEvent, chunkIdx, vectorsBuf, ingestEvents, sourceBucket,
                  faultBudget, embedded >>

IngestNext ==
  \/ IngestInvoke
  \/ StartRecord
  \/ EmbedChunk
  \/ FinalUpload

-----------------------------------------------------------------------------
(* Two concurrent invocations of search_transcripts *)

Invocations == { 1, 2 }

\* app.py 15-17, read under `global` at line 60
ModuleConfig ==
  [ model_id |-> "MODEL_ID", s3_vector_bucket |-> "VECTOR_BUCKET_NAME",
    index_name |-> "INDEX_NAME" ]

\* the queries of the concurrent invocations: one leadership, one technical
ConcurrentQueries ==
  { << "ciso", "agentic", "ai", "security" >>, << "bedrock", "sdk", "a", "code" >> }

\* what a vector query of a concurrent invocation can be answered with
ConcurrentResponses ==
  { [ kind |-> "ok", vectors |-> SelectSeqIdx(SubSeq(AllDocs, 1, ConcurrentCorpus), idx) ] :
      idx \in SUBSET (1..ConcurrentCorpus) }
    \cup { [ kind |-> "ClientError" ] }

\* variant: every invocation works in the frame of invocation 1
Frame_Shared(i) == 1

\* the frame holding the local variables of invocation i: each call has its own
Frame(i) == i

NoFrame ==
  [ query |-> << >>, persona |-> "unset", candidates |-> << >>, top_docs |-> << >>,
    valid_results |-> << >> ]

NothingSeen == [ clients |-> "none", embedding |-> "none", responses |-> << >> ]

\* scoring, clustering and link filtering of one batch, on a frame
PassOnFrame(f, vecs) ==
  LET scored == ScoreBatch(vecs, f.query, f.persona)
      slate == Cluster(scored, f.persona)
  IN  [ f EXCEPT !.candidates = CandidatesAfterCluster(scored, f.persona),
                 !.top_docs = slate,
                 !.valid_results = LinkFilter(slate) ]

\* the envelope a vector query answer ends the run with, NoResult if it does not
EndsRun(resp, initial) ==
  IF resp.kind = "ClientError" THEN Returned(MessageEnvelope("ClientError"))
  ELSE IF NoVectors(resp)
  THEN IF initial THEN Returned(MessageEnvelope("NO_RELEVANT_OUTPUT")) ELSE NoResult
  ELSE IF RaisesKeyError(resp.vectors) THEN Returned(MessageEnvelope("Exception"))
  ELSE NoResult

\* what search_transcripts returns for query q when it runs alone and the
\* services answer as in seen
RunAlone(q, seen) ==
  LET p == InferPersona(q)
      first == seen.responses[1]
      second == seen.responses[2]
      valid1 == LinkFilter(Cluster(ScoreBatch(first.vectors, q, p), p))
      valid2 == LinkFilter(Cluster(ScoreBatch(second.vectors, q, p), p))
  IN  IF seen.clients = "ClientError" THEN Returned(MessageEnvelope("ClientError"))
      ELSE IF seen.clients # "ok" THEN Raised(seen.clients)
      ELSE IF seen.embedding = "missing" THEN Returned(MessageEnvelope("NO_RELEVANT_OUTPUT"))
      ELSE IF seen.embedding # "ok" THEN Returned(MessageEnvelope(seen.embedding))
      ELSE IF EndsRun(first, TRUE) # NoResult THEN EndsRun(first, TRUE)
      ELSE IF ~NeedsRetry(valid1) THEN Returned(PrepareOutput(valid1))
      ELSE IF EndsRun(second, FALSE) # NoResult THEN EndsRun(second, FALSE)
      ELSE IF NoVectors(second) THEN Returned(PrepareOutput(valid1))
      ELSE Returned(PrepareOutput(valid2))

ConcurrentInit ==
  /\ cpc = [ i \in Invocations |-> "enter" ]
  /\ cargs \in [ Invocations -> ConcurrentQueries ]
  /\ cseen = [ i \in Invocations |-> NothingSeen ]
  /\ cframe = [ i \in Invocations |-> NoFrame ]
  /\ cresult = [ i \in Invocations |-> NoResult ]
  /\ moduleConfig = ModuleConfig

ConcurrentIdle ==
  /\ cpc = [ i \in Invocations |-> "off" ]
  /\ cargs = [ i \in Invocations |-> << >> ]
  /\ cseen = [ i \in Invocations |-> NothingSeen ]
  /\ cframe = [ i \in Invocations |-> NoFrame ]
  /\ cresult = [ i \in Invocations |-> NoResult ]
  /\ moduleConfig = ModuleConfig

\* invocation i returns r
CFinish(i, r) == cpc' = [ cpc EXCEPT ![i] = "done" ] /\ cresult' = [ cresult EXCEPT ![i] = r ]
CGoto(i, l) == cpc' = [ cpc EXCEPT ![i] = l ] /\ cresult' = cresult

\* the call: the argument is bound in the frame; the clients are built
\* (app.py 59-75)
CEnter(i) ==
  /\ cpc[i] = "enter"
  /\ cframe' = [ cframe EXCEPT ![Frame(i)] = [ NoFrame EXCEPT !.query = cargs[i] ] ]
  /\ \E o \in ClientOutcomes :
       /\ cseen' = [ cseen EXCEPT ![i].clients = o ]
       /\ CASE o = "ok" -> CGoto(i, "persona")
            [] o = "ClientError" -> CFinish(i, Returned(MessageEnvelope("ClientError")))
            [] OTHER -> CFinish(i, Raised(o))

\* app.py 78-105: persona and weights, then the embedding
CEmbed(i) ==
  /\ cpc[i] = "persona"
  /\ cframe' = [ cframe EXCEPT ![Frame(i)].persona = InferPersona(cframe[Frame(i)].query) ]
  /\ \E o \in EmbeddingOutcomes :
       /\ cseen' = [ cseen EXCEPT ![i].embedding = o ]
       /\ CASE o = "ok" -> CGoto(i, "query")
            [] o = "missing" -> CFinish(i, Returned(MessageEnvelope("NO_RELEVANT_OUTPUT")))
            [] OTHER -> CFinish(i, Returned(MessageEnvelope(o)))

\* app.py 107-217 (initial = TRUE) and 219-301 (initial = FALSE)
CQuery(i, initial) ==
  /\ cpc[i] = IF initial THEN "query" ELSE "retry"
  /\ \E resp \in ConcurrentResponses :
       /\ cseen' = [ cseen EXCEPT ![i].responses = Append(@, resp) ]
       /\ IF EndsRun(resp, initial) # NoResult
          THEN CFinish(i, EndsRun(resp, initial)) /\ cframe' = cframe
          ELSE IF NoVectors(resp)
          THEN CGoto(i, "output") /\ cframe' = cframe
          ELSE LET f == PassOnFrame(cframe[Frame(i)], resp.vectors)
               IN  /\ cframe' = [ cframe EXCEPT ![Frame(i)] = f ]
                   /\ CGoto(i, IF initial /\ NeedsRetry(f.valid_results)
                               THEN "retry" ELSE "output")

\* app.py 303-338
COutput(i) ==
  /\ cpc[i] = "output"
  /\ CFinish(i, Returned(PrepareOutput(cframe[Frame(i)].valid_results)))
  /\ UNCHANGED << cseen, cframe >>

ConcurrentEnter ==
  \E i \in Invocations : CEnter(i) /\ UNCHANGED << cargs, moduleConfig >> /\ UNCHANGED notConcurrentVars
ConcurrentEmbed ==
  \E i \in Invocations : CEmbed(i) /\ UNCHANGED << cargs, moduleConfig >> /\ UNCHANGED notConcurrentVars
ConcurrentQueryInitial ==
  \E i \in Invocations : CQuery(i, TRUE) /\ UNCHANGED << cargs, moduleConfig >> /\ UNCHANGED notConcurrentVars
ConcurrentQueryRetry ==
  \E i \in Invocations : CQuery(i, FALSE) /\ UNCHANGED << cargs, moduleConfig >> /\ UNCHANGED notConcurrentVars
ConcurrentOutput ==
  \E i \in Invocations : COutput(i) /\ UNCHANGED << cargs, moduleConfig >> /\ UNCHANGED notConcurrentVars

ConcurrentNext ==
  \/ ConcurrentEnter
  \/ ConcurrentEmbed
  \/ ConcurrentQueryInitial
  \/ ConcurrentQueryRetry
  \/ ConcurrentOutput

-----------------------------------------------------------------------------
(* Specifications *)

\* a component that is not exercised stays in its idle state
SearchIdle ==
  /\ pc = "idle"
  /\ query = << >>
  /\ persona = "unset"
  /\ candidates = << >>
  /\ top_docs = << >>
  /\ valid_results = << >>
  /\ result = NoResult
  /\ embedCalls = 0
  /\ embedding = "none"
  /\ vectorQueries = << >>
  /\ responses = << >>
  /\ initialValid = NotReached

ProvIdle ==
  /\ hpc = "off"
  /\ handler = "none"
  /\ event = [ RequestType |-> "absent" ]
  /\ status = SUCCESS
  /\ reason = ""
  /\ attempt = 0
  /\ bucketExists = FALSE
  /\ indexExists = FALSE
  /\ storeCalls = << >>
  /\ lastOutcome = "none"
  /\ sent = << >>
  /\ delivered = << >>
  /\ escaped = "none"
  /\ faulted = FALSE
  /\ last = NoInvocation
  /\ prev = NoInvocation
  /\ invocations = 0

\* runs of search_transcripts
InitSearch == SearchInit /\ ProvIdle /\ InvokeIdle /\ IngestIdle /\ ConcurrentIdle
SpecSearch == InitSearch /\ [][SearchNext]_vars

\* lifecycle events delivered one after the other to the provisioning handlers
InitProvision == SearchIdle /\ ProvInit /\ InvokeIdle /\ IngestIdle /\ ConcurrentIdle
SpecProvision == InitProvision /\ [][ProvNext]_vars

\* Termination and the number of store calls are properties of one
\* invocation.  This specification follows a single invocation, the last one
\* the bound on invocations admits, from every state of the store.
InitOneInvocation ==
  /\ SearchIdle /\ InvokeIdle /\ IngestIdle /\ ConcurrentIdle
  /\ hpc = "idle"
  /\ handler = "none"
  /\ event = [ RequestType |-> "absent" ]
  /\ status = SUCCESS
  /\ reason = ""
  /\ attempt = 0
  /\ bucketExists \in BOOLEAN
  /\ indexExists \in BOOLEAN
  /\ indexExists => bucketExists
  /\ storeCalls = << >>
  /\ lastOutcome = "none"
  /\ sent = << >>
  /\ delivered = << >>
  /\ escaped = "none"
  /\ faulted = FALSE
  /\ last = NoInvocation
  /\ prev = NoInvocation
  /\ invocations = MaxInvocations - 1

\* The handler runs on one interpreter thread with nothing to wait for but
\* its own calls: a loop iteration that is reached is executed (the store call
\* returns or raises, time.sleep(2 ** attempt) is finite), and so is the
\* finally block.  Nothing obliges the environment to invoke the handler.
FairSpecProvision ==
  InitOneInvocation /\ [][ProvNext]_vars /\ WF_vars(Attempt) /\ WF_vars(Send)

\* persona inference alone, applied to every query of up to MaxQueryLen words
\* over a vocabulary with leadership terms, technical terms and other words
QueryWords == { "ciso", "leadership", "security", "api", "sdk", "the" }

RECURSIVE QueriesUpTo(_)
QueriesUpTo(n) ==
  IF n = 0 THEN { << >> }
  ELSE LET shorter == QueriesUpTo(n - 1)
       IN  shorter \cup { Append(q, w) : q \in { x \in shorter : Len(x) = n - 1 },
                                         w \in QueryWords }

InitPersona ==
  /\ ProvIdle /\ InvokeIdle /\ IngestIdle /\ ConcurrentIdle
  /\ pc = "persona"
  /\ query \in QueriesUpTo(MaxQueryLen)
  /\ persona = "unset"
  /\ candidates = << >>
  /\ top_docs = << >>
  /\ valid_results = << >>
  /\ result = NoResult
  /\ embedCalls = 0
  /\ embedding = "none"
  /\ vectorQueries = << >>
  /\ responses = << >>
  /\ initialValid = NotReached

PersonaNext == InferPersonaStep
SpecPersona == InitPersona /\ [][PersonaNext]_vars

\* calls of the entrypoint
InitInvoke == SearchIdle /\ ProvIdle /\ InvokeInit /\ IngestIdle /\ ConcurrentIdle
SpecInvoke == InitInvoke /\ [][InvokeNext]_vars

\* ingestion events
InitIngest == SearchIdle /\ ProvIdle /\ InvokeIdle /\ IngestInit /\ ConcurrentIdle
SpecIngest == InitIngest /\ [][IngestNext]_vars

\* ingestion of a spreadsheet with more rows than a batch holds: one event,
\* the last one the bound on events admits; of the embedding calls at most
\* MaxEmbeddingFaults fail or answer with another dimension
IngestBulkInit ==
  /\ gpc = "idle"
  /\ ingestEvent = << >>
  /\ recordIdx = 0
  /\ chunkIdx = 0
  /\ vectorsBuf = << >>
  /\ indexContents = EmptyIndex
  /\ overwritten = { }
  /\ putCalls = << >>
  /\ ingestResult = "none"
  /\ ingestEvents = MaxIngestEvents - 1
  /\ sourceBucket = BulkFiles
  /\ faultBudget = MaxEmbeddingFaults
  /\ embedded = << >>

InitIngestBulk == SearchIdle /\ ProvIdle /\ InvokeIdle /\ IngestBulkInit /\ ConcurrentIdle
SpecIngestBulk == InitIngestBulk /\ [][IngestNext]_vars

\* two invocations of search_transcripts, interleaved at the service calls
InitConcurrent == SearchIdle /\ ProvIdle /\ InvokeIdle /\ IngestIdle /\ ConcurrentInit
SpecConcurrent == InitConcurrent /\ [][ConcurrentNext]_vars

\* the whole program: one of the components is exercised
Init ==
  \/ InitSearch
  \/ InitProvision
  \/ InitInvoke
  \/ InitIngest
  \/ InitConcurrent
Next ==
  \/ SearchNext
  \/ ProvNext
  \/ InvokeNext
  \/ IngestNext
  \/ ConcurrentNext
Spec == Init /\ [][Next]_vars

-----------------------------------------------------------------------------
(* Vocabulary of the claims about search_transcripts *)

LinkFieldNames ==
  { "External Youtube Link", "Content Link", "Deck Link", "Internal Broadcast Video Link" }

\* the spellings of the placeholder that occur in the corpus
PlaceholderSpellings == { "not available", "Not available", "NOT AVAILABLE", "Not Available" }

\* at least one of the four link fields is present, non-empty and no placeholder
LinkBearing(doc) ==
  \E f \in LinkFieldNames :
    /\ f \in DOMAIN doc.metadata
    /\ doc.metadata[f] # ""
    /\ doc.metadata[f] \notin PlaceholderSpellings

LinkBearingCount(docs) == Cardinality({ i \in 1..Len(docs) : LinkBearing(docs[i]) })

Keys(docs) == { docs[i].key : i \in 1..Len(docs) }
DocOf(id) == CHOOSE d \in Range(AllDocs) : d.key = id

Done == pc = "done"
IsEnvelope == result.kind = "return"
IsSuccess ==
  IsEnvelope /\ DOMAIN result.output = { "results", "final_recommendation" }
IsInsufficient ==
  /\ IsEnvelope
  /\ "results" \in DOMAIN result.output
  /\ "message" \in DOMAIN result.output

\* every query issued returned a non-empty, well-formed list of vectors
QueriesReturnedData ==
  /\ responses # << >>
  /\ \A i \in 1..Len(responses) :
       /\ responses[i].kind = "ok"
       /\ responses[i].vectors # << >>
       /\ ~RaisesKeyError(responses[i].vectors)

Retried == Len(vectorQueries) = 2
FinalBatch == responses[Len(responses)].vectors

\* the run went through the output step
RanToOutput == Done /\ (IsSuccess \/ IsInsufficient)

-----------------------------------------------------------------------------
(* C1 *)

\* C1 as stated: when the embedding and the vector queries return data, a success
\* envelope is returned iff the final candidate batch (top-10, or top-15 after
\* the retry) holds at least 2 candidates with a usable link.
C1_SuccessIffBatchLinkBearing ==
  (Done /\ QueriesReturnedData) =>
    (IsSuccess <=> LinkBearingCount(FinalBatch) >= 2)

\* C1 amended: when the embedding and the vector queries return data, a success
\* envelope is returned iff at least 2 candidates of the slate selected from the
\* final batch have a usable link (2 link-bearing candidates in the batch are
\* necessary, not sufficient); otherwise a failure envelope is returned whose
\* results are link-bearing candidates of the final batch.
C1_SuccessIffSlateLinkBearing ==
  (Done /\ QueriesReturnedData) =>
    /\ IsSuccess \/ IsInsufficient
    /\ \A i \in 1..Len(top_docs) : top_docs[i].doc_id \in Keys(FinalBatch)
    /\ IsSuccess <=>
         Cardinality({ i \in 1..Len(top_docs) : LinkBearing(DocOf(top_docs[i].doc_id)) }) >= 2
    /\ IsSuccess => LinkBearingCount(FinalBatch) >= 2
    /\ IsInsufficient =>
         /\ ~IsSuccess
         /\ \A i \in 1..Len(result.output.results) :
              /\ result.output.results[i].doc_id \in Keys(FinalBatch)
              /\ LinkBearing(DocOf(result.output.results[i].doc_id))

\* a failed run after a retry whose batch holds 2 link-bearing candidates
C1_Witness ==
  /\ Done /\ QueriesReturnedData /\ Retried
  /\ IsInsufficient
  /\ LinkBearingCount(FinalBatch) >= 2

-----------------------------------------------------------------------------
(* C2 *)

\* C2: every success envelope has exactly 2 results, in descending order of
\* hybrid_score.
C2_TwoResultsDescending ==
  (Done /\ IsSuccess) =>
    /\ Len(result.output.results) = 2
    /\ RLeq(result.output.results[2].hybrid_score, result.output.results[1].hybrid_score)

-----------------------------------------------------------------------------
(* C3 *)

\* C3: the retry query (topK = 15) is issued exactly once when the initial pass
\* leaves fewer than 2 valid results and not at all otherwise; a run issues at
\* most one embedding call, followed by at most two vector queries.
C3_RetryExactlyOnce ==
  /\ embedCalls <= 1
  /\ vectorQueries \in { << >>, << TopKInitial >>, << TopKInitial, TopKRetry >> }
  /\ vectorQueries # << >> => embedCalls = 1
  /\ initialValid = NotReached => Len(vectorQueries) <= 1
  /\ (Done /\ initialValid # NotReached) =>
       (Len(initialValid) < 2 <=> vectorQueries = << TopKInitial, TopKRetry >>)

\* a finished run whose initial pass left one valid result and which retried,
\* still failing after the retry
C3_Witness ==
  /\ Done /\ initialValid # NotReached /\ Len(initialValid) = 1
  /\ vectorQueries = << TopKInitial, TopKRetry >>
  /\ IsInsufficient

-----------------------------------------------------------------------------
(* C4 *)

\* C4: no returned results entry belongs to a candidate whose four link fields
\* are all absent, empty or the placeholder in any letter case; every links
\* mapping returned is non-empty and holds only usable fields of the candidate.
C4_OnlyLinkBearingResults ==
  (IsEnvelope /\ "results" \in DOMAIN result.output) =>
    \A i \in 1..Len(result.output.results) :
      LET e == result.output.results[i]
          md == DocOf(e.doc_id).metadata
      IN  /\ LinkBearing(DocOf(e.doc_id))
          /\ e.links # << >>
          /\ \A k \in DOMAIN e.links :
               /\ e.links[k] # ""
               /\ e.links[k] \notin PlaceholderSpellings
               /\ \E j \in 1..Len(LinkFields) :
                    /\ LinkFields[j].key = k
                    /\ LinkFields[j].field \in DOMAIN md
                    /\ md[LinkFields[j].field] = e.links[k]

\* a run returning results whose slate held a candidate without any usable link
C4_Witness ==
  /\ Done /\ IsEnvelope /\ "results" \in DOMAIN result.output
  /\ result.output.results # << >>
  /\ \E i \in 1..Len(top_docs) : ~LinkBearing(DocOf(top_docs[i].doc_id))

-----------------------------------------------------------------------------
(* C5 *)

\* C5: every failure inside search_transcripts ends in a returned message
\* envelope; no exception escapes to the caller.
C5_NoExceptionEscapes == result.kind # "raise"

-----------------------------------------------------------------------------
(* C6 *)

NoRelevantOutput == Returned([ message |-> "NO_RELEVANT_OUTPUT" ])

\* C6: a missing embedding field, or an initial query without vectors, returns
\* exactly the NO_RELEVANT_OUTPUT message; after a missing embedding no vector
\* query is issued.
C6_UpstreamEmpty ==
  /\ embedding = "missing" => (Done /\ result = NoRelevantOutput /\ vectorQueries = << >>)
  /\ (responses # << >> /\ responses[1].kind \in { "ok", "novectors" }
        /\ (responses[1].kind = "novectors" \/ responses[1].vectors = << >>)) =>
       (Done /\ result = NoRelevantOutput /\ Len(vectorQueries) = 1)

\* the initial query answered with an empty list of vectors
C6_Witness ==
  /\ Done /\ responses # << >>
  /\ responses[1].kind = "ok" /\ responses[1].vectors = << >>
  /\ result = NoRelevantOutput

-----------------------------------------------------------------------------
(* C7 *)

ResultIds == { result.output.results[i].doc_id : i \in 1..Len(result.output.results) }

\* C7 as stated: the failure envelope carries the message, the fixed
\* recommendation and fewer than 2 results, among them every candidate that
\* passed the link filter in the initial pass, also when the retry ran.
C7_InitialResultsKept ==
  (Done /\ IsInsufficient) =>
    /\ result.output.final_recommendation = InsufficientRecommendation
    /\ Len(result.output.results) < 2
    /\ \A i \in 1..Len(initialValid) : initialValid[i].doc_id \in ResultIds

\* C7 amended: the failure envelope carries the message, the fixed recommendation
\* and fewer than 2 results: the link-bearing candidates of the slate of the last
\* pass that received vectors (the retry pass when the retry query returned
\* vectors, which discards the results of the initial pass; the initial pass
\* when the retry query returned none).
C7_LastPassResultsKept ==
  (Done /\ IsInsufficient) =>
    /\ DOMAIN result.output = { "message", "results", "final_recommendation" }
    /\ result.output.final_recommendation = InsufficientRecommendation
    /\ Len(result.output.results) < 2
    /\ result.output.message = FoundOnlyMessage(Len(result.output.results))
    /\ Retried
    /\ ResultIds = { top_docs[i].doc_id : i \in
                       { j \in 1..Len(top_docs) : LinkBearing(DocOf(top_docs[j].doc_id)) } }
    /\ IF responses[2].kind = "ok" /\ responses[2].vectors # << >>
       THEN ResultIds \subseteq Keys(responses[2].vectors)
       ELSE result.output.results = initialValid

\* a failure after a retry that returned vectors: the one result of the initial
\* pass is gone, the envelope holds one result of the retry pass
C7_Witness ==
  /\ Done /\ IsInsufficient /\ Retried
  /\ responses[2].kind = "ok" /\ responses[2].vectors # << >>
  /\ Len(initialValid) = 1 /\ Len(result.output.results) = 1
  /\ initialValid[1].doc_id \notin ResultIds

-----------------------------------------------------------------------------
(* Vocabulary of the claims about the provisioning handlers *)

\* an invocation has ended and no other has started
HandlerEnded == hpc = "idle" /\ invocations > 0

\* the invocation that ended last received the same lifecycle event as the one
\* before it, by the same handler, and ran its retry loop undisturbed: no early
\* return for lack of time, no exception before the loop, no transient fault
SameEventAgain ==
  /\ HandlerEnded
  /\ prev # NoInvocation
  /\ last.handler = prev.handler
  /\ last.RequestType = prev.RequestType
  /\ last.properties = prev.properties
  /\ ~last.early
  /\ ~last.faulted

-----------------------------------------------------------------------------
(* C8 *)

-----------------------------------------------------------------------------
(* C9 *)

\* C9: delivering the same lifecycle event twice in a row reports SUCCESS both
\* times and leaves the store as one delivery left it.
C9_Idempotent ==
  (SameEventAgain /\ prev.status = SUCCESS) =>
    /\ last.status = SUCCESS
    /\ last.bucket = prev.bucket
    /\ last.index = prev.index

-----------------------------------------------------------------------------
(* C10 *)

\* C10: whatever form the agent hands the tool's envelope over in (its JSON
\* text, that text under one or more layers of string quoting, or a list of
\* fragments of it), invoke returns an object equal to the envelope, also
\* when the message holds quote or backslash characters.
C10_PassThroughUnchanged ==
  ipc = "done" /\ payload = "given" => invokeResult = toolOutput

-----------------------------------------------------------------------------
(* C11 *)

\* C11: a payload without a prompt (key absent or value empty) is answered with
\* {"output": {"error": "No prompt provided"}} and the error indicator 400, and
\* neither the agent nor the embedding service nor the vector index is called.
C11_NoPromptRejected ==
  /\ (ipc = "done" /\ payload \in { "absent", "empty" }) =>
       /\ invokeResult = NoPromptResponse
       /\ invokeResult.output = [ error |-> "No prompt provided" ]
       /\ invokeResult.code = 400
  /\ payload \in { "absent", "empty" } =>
       /\ agentCalls = 0
       /\ toolOutput = NoEnvelope
       /\ embedCalls = 0
       /\ vectorQueries = << >>

\* a call with an empty prompt has returned
C11_Witness ==
  /\ ipc = "done" /\ payload = "empty"
  /\ invokeResult.kind = "error"
  /\ agentCalls = 0

-----------------------------------------------------------------------------
(* C12 *)

\* the responses that were scored: well-formed, non-empty lists of vectors
ScoredResponses ==
  { i \in 1..Len(responses) :
      /\ responses[i].kind = "ok"
      /\ responses[i].vectors # << >>
      /\ ~RaisesKeyError(responses[i].vectors) }

\* the scored candidates of the last pass, in batch order
LastScored ==
  ScoreBatch(responses[CHOOSE i \in ScoredResponses : \A j \in ScoredResponses : j <= i].vectors,
             query, persona)

\* candidate i of cs ranks before candidate j: a higher hybrid_score, or the
\* same hybrid_score and an earlier place in the batch
RanksBefore(cs, i, j) ==
  \/ RLess(cs[j].hybrid_score, cs[i].hybrid_score)
  \/ cs[i].hybrid_score = cs[j].hybrid_score /\ i < j

\* the up-to-n first-ranked candidates of cs among the positions idx, by rank
RECURSIVE TopOf(_, _, _)
TopOf(cs, idx, n) ==
  IF n = 0 \/ idx = { } THEN << >>
  ELSE LET best == CHOOSE i \in idx : \A j \in idx \ { i } : RanksBefore(cs, i, j)
       IN  << cs[best] >> \o TopOf(cs, idx \ { best }, n - 1)

\* the slate the rule prescribes for the scored batch cs and persona p
RuleSlate(cs, p) ==
  LET L == { i \in 1..Len(cs) :
               CountAll(cs[i].content, leadership_terms)
                 >= CountAll(cs[i].content, technical_terms) }
      T == (1..Len(cs)) \ L
  IN  IF p = "leadership" /\ L # { }
      THEN TopOf(cs, L, 2) \o (IF Cardinality(L) < 2 THEN TopOf(cs, T, 1) ELSE << >>)
      ELSE TopOf(cs, 1..Len(cs), 5)

\* C12: in both passes the slate is the up-to-2 highest-scoring
\* leadership-leaning candidates (backfilled with the one highest-scoring
\* technical-leaning candidate only when fewer than 2 exist) when the persona is
\* leadership and a leadership-leaning candidate exists, else the 5
\* highest-scoring candidates; ties keep the batch order and no candidate is
\* in the slate twice.
C12_SlateRule ==
  IF ScoredResponses = { } THEN top_docs = << >>
  ELSE /\ top_docs = RuleSlate(LastScored, persona)
       /\ \A i, j \in 1..Len(top_docs) : top_docs[i].doc_id = top_docs[j].doc_id => i = j

\* the retry pass of a leadership query chose one leadership-leaning candidate
\* and a technical backfill
C12_Witness ==
  /\ Done /\ Retried /\ persona = "leadership"
  /\ 2 \in ScoredResponses
  /\ Len(top_docs) = 2
  /\ LeadershipLeaning(top_docs[1]) /\ ~LeadershipLeaning(top_docs[2])

-----------------------------------------------------------------------------
(* C13 *)

\* the highest hybrid_score among the returned results
TopReturnedScore ==
  RMaxSeq([ i \in 1..Len(result.output.results) |-> result.output.results[i].hybrid_score ])

\* C13: in every success envelope final_recommendation begins with "Highly
\* recommended" exactly when the hybrid_score of the highest-scoring of the 2
\* returned results is strictly greater than 0.5, and with "Moderately
\* relevant" otherwise.
C13_LabelFollowsTopScore ==
  (Done /\ IsSuccess) =>
    /\ result.output.final_recommendation.text \in { "Highly recommended", "Moderately relevant" }
    /\ result.output.final_recommendation.text = "Highly recommended"
         <=> RLess(Rat(1, 2), TopReturnedScore)

-----------------------------------------------------------------------------
(* C14 *)

\* the number of occurrences of leadership terms, and of technical terms
LeadershipHits == CountAll(query, leadership_terms)
TechnicalHits == CountAll(query, technical_terms)

\* C14: for every query, the empty one included, the inferred persona is one
\* of leadership, technical, general: leadership exactly when leadership_conf >
\* technical_conf, technical exactly when technical_conf > leadership_conf, and
\* general when the two are equal, both zero included.
C14_PersonaByConfidence ==
  persona # "unset" =>
    /\ persona \in { "leadership", "technical", "general" }
    /\ persona = "leadership" <=> RLess(technical_conf(query), leadership_conf(query))
    /\ persona = "technical" <=> RLess(leadership_conf(query), technical_conf(query))
    /\ persona = "general" <=> leadership_conf(query) = technical_conf(query)
    /\ persona = "leadership" <=> LeadershipHits > TechnicalHits
    /\ persona = "technical" <=> TechnicalHits > LeadershipHits
    /\ (LeadershipHits = 0 /\ TechnicalHits = 0) => persona = "general"

\* the persona of the empty query has been inferred
C14_Witness == query = << >> /\ persona = "general" /\ pc = "embed"

-----------------------------------------------------------------------------
(* C15 *)

\* the batch maxima of the raw scores of the candidates of the last pass
BatchMaxKw == RMaxSeq([ i \in 1..Len(candidates) |-> candidates[i].keyword_score ])
BatchMaxMeta == RMaxSeq([ i \in 1..Len(candidates) |-> candidates[i].metadata_score ])

\* the normalized scores blended into the hybrid_score of candidate c
NormKw(c) == Normalize(c.keyword_score, BatchMaxKw)
NormMeta(c) == Normalize(c.metadata_score, BatchMaxMeta)

InUnitInterval(x) == x[2] > 0 /\ RLeq(RZero, x) /\ RLeq(x, Rat(1, 1))

\* C15: for the candidates of a batch, in either pass, every normalized
\* keyword_score and metadata_score lies in [0, 1] (so each batch maximum is at
\* most 1, and exactly 1 when some raw score is positive), each is 0 for all
\* candidates when every raw score of that kind is 0, and these are the values
\* blended into hybrid_score.
C15_NormalizedInUnitInterval ==
  LET maxKw == BatchMaxKw
      maxMeta == BatchMaxMeta
      kw == [ i \in 1..Len(candidates) |-> Normalize(candidates[i].keyword_score, maxKw) ]
      meta == [ i \in 1..Len(candidates) |-> Normalize(candidates[i].metadata_score, maxMeta) ]
  IN  \A i \in 1..Len(candidates) :
        /\ InUnitInterval(kw[i]) /\ InUnitInterval(meta[i])
        /\ maxKw = RZero => kw[i] = RZero
        /\ maxMeta = RZero => meta[i] = RZero
        /\ RLess(RZero, maxKw) => \E j \in 1..Len(candidates) : kw[j] = Rat(1, 1)
        /\ RLess(RZero, maxMeta) => \E j \in 1..Len(candidates) : meta[j] = Rat(1, 1)
        /\ candidates[i].hybrid_score =
             RAdd(RAdd(RMul(semantic_weight(persona), candidates[i].semantic_score),
                       RMul(keyword_weight(persona), kw[i])),
                  RMul(metadata_weight, meta[i]))

\* a retry pass whose batch has a candidate with normalized keyword_score 1,
\* one strictly between 0 and 1, and only zero raw metadata scores
C15_Witness ==
  /\ Done /\ Retried /\ 2 \in ScoredResponses
  /\ BatchMaxMeta = RZero
  /\ \E i, j \in 1..Len(candidates) :
       /\ NormKw(candidates[i]) = Rat(1, 1)
       /\ RLess(RZero, NormKw(candidates[j])) /\ RLess(NormKw(candidates[j]), Rat(1, 1))

-----------------------------------------------------------------------------
(* C16 *)

Personas == { "leadership", "technical", "general" }

\* the weights the claim names, in hundredths: semantic, keyword, metadata
NamedWeights(p) ==
  CASE p = "leadership" -> << Rat(80, 100), Rat(15, 100), Rat(5, 100) >>
    [] p = "technical"  -> << Rat(60, 100), Rat(35, 100), Rat(5, 100) >>
    [] OTHER            -> << Rat(70, 100), Rat(25, 100), Rat(5, 100) >>

\* C16: for every persona the weights are 0.8 / 0.6 / 0.7 (semantic), 0.05
\* (metadata) and 1 - semantic - 0.05 (keyword), non-negative and of sum 1, and
\* the hybrid_score of every candidate of either pass is blended with them.
C16_WeightsSumToOne ==
  /\ \A p \in Personas :
       /\ << semantic_weight(p), keyword_weight(p), metadata_weight >> = NamedWeights(p)
       /\ RAdd(RAdd(semantic_weight(p), keyword_weight(p)), metadata_weight) = Rat(1, 1)
       /\ RLeq(RZero, semantic_weight(p)) /\ RLeq(RZero, keyword_weight(p))
       /\ RLeq(RZero, metadata_weight)
  /\ LET maxKw == BatchMaxKw
         maxMeta == BatchMaxMeta
         w == NamedWeights(persona)
     IN  \A i \in 1..Len(candidates) :
           candidates[i].hybrid_score =
             RAdd(RAdd(RMul(w[1], candidates[i].semantic_score),
                       RMul(w[2], Normalize(candidates[i].keyword_score, maxKw))),
                  RMul(w[3], Normalize(candidates[i].metadata_score, maxMeta)))

\* a technical query whose retry pass scored a batch with positive keyword and
\* metadata scores
C16_Witness ==
  /\ Done /\ Retried /\ 2 \in ScoredResponses /\ persona = "technical"
  /\ candidates # << >>
  /\ RLess(RZero, BatchMaxKw) /\ RLess(RZero, BatchMaxMeta)

-----------------------------------------------------------------------------
(* C17 *)

\* C17: the keys written to the index are unique per chunk: after any sequence
\* of ingestion events no two distinct chunks have been upserted under the
\* same key, so no chunk's vector overwrites the vector of another chunk.
C17_KeysUniquePerChunk == overwritten = { }

-----------------------------------------------------------------------------
(* C18 *)

\* C18: under every interleaving of two invocations of search_transcripts each
\* returns the envelope it would return alone for the same answers of the
\* services, and no invocation writes the module-level configuration.
C18_InvocationsIndependent ==
  /\ moduleConfig = ModuleConfig
  /\ \A i \in Invocations :
       cpc[i] = "done" => cresult[i] = RunAlone(cargs[i], cseen[i])

\* both invocations are in the middle of their runs, with different queries:
\* one has retried and is about to return, the other is about to retry
C18_Witness ==
  /\ cpc[1] = "output" /\ Len(cseen[1].responses) = 2
  /\ cpc[2] = "retry"
  /\ cargs[1] # cargs[2]
  /\ cframe[1].persona # cframe[2].persona

-----------------------------------------------------------------------------
(* C19: termination and the number of store calls of one invocation        *)

\* the store calls of the invocation in hand, and its request
StoreCallCount == Len(storeCalls)
IsDelete == event.RequestType = "Delete"

\* what holds of the store calls at every moment of an invocation: never more
\* than three; none for Update; none when the handler returned early
StoreCallsBounded ==
  /\ StoreCallCount <= 3
  /\ (handler # "none" /\ event.RequestType = "Update") => storeCalls = << >>
  /\ (handler # "none" /\ EarlyReturn(event) # "") => storeCalls = << >>

\* a step that re-attempts a Delete: a further store call of the same
\* invocation.  It follows a throttling error and fewer than three attempts.
DeleteReattemptedOnlyAfterThrottling ==
  (IsDelete /\ StoreCallCount > 0 /\ Len(storeCalls') > StoreCallCount)
    => (lastOutcome \in ThrottlingCodes /\ StoreCallCount < 3)

\* C19: in both provisioning handlers an invocation that has started always
\* ends, and makes at most 3 store calls: a Delete is re-attempted only after a
\* throttling error and only while fewer than 3 attempts were made (so not
\* after any other error), Update makes no store call, and no store call is
\* made when the handler returns early (RequestType or a required parameter
\* missing, remaining time under 10000 ms).
C19_TerminatesWithinThreeCalls ==
  /\ []StoreCallsBounded
  /\ [][DeleteReattemptedOnlyAfterThrottling]_vars
  /\ (hpc # "idle") ~> (hpc = "idle")

\* a Delete throttled three times has ended after its third store call
C19_Witness ==
  /\ hpc = "idle" /\ invocations > 0
  /\ IsDelete
  /\ StoreCallCount = 3
  /\ lastOutcome \in ThrottlingCodes
  /\ sent = << FAILED >>

-----------------------------------------------------------------------------
(* C20: the reported Status is faithful to the outcome                     *)

\* the Status the invocation that ended passed to cfnresponse.send
ReportedStatus == sent[Len(sent)]
Reported == hpc = "idle" /\ invocations > 0 /\ sent # << >>

\* the last attempt of the store operation failed with an error other than
\* resource-not-found
LastAttemptFailed ==
  /\ storeCalls # << >>
  /\ lastOutcome # "ok"
  /\ lastOutcome \notin NotFoundCodes(handler)

\* the resource to delete was already absent
AlreadyAbsent ==
  /\ IsDelete
  /\ storeCalls # << >>
  /\ lastOutcome \in NotFoundCodes(handler)

LastAttemptSucceeded == storeCalls # << >> /\ lastOutcome = "ok"
IsNoOp == EarlyReturn(event) = "" /\ StoreOperation(handler, event.RequestType) = "none"

\* C20: FAILED is reported whenever the handler returned early (RequestType or
\* a required parameter missing, remaining time under 10000 ms) or the last
\* attempt of the store operation failed with an error other than
\* resource-not-found; SUCCESS is reported only when the last attempt
\* succeeded, the request is a no-op, or the resource to delete was already
\* absent; a failed earlier attempt followed by a successful one is reported
\* as SUCCESS.
C20_StatusFaithful ==
  Reported =>
    /\ (EarlyReturn(event) # "" \/ LastAttemptFailed) => ReportedStatus = FAILED
    /\ ReportedStatus = SUCCESS => (LastAttemptSucceeded \/ IsNoOp \/ AlreadyAbsent)
    /\ (StoreCallCount > 1 /\ lastOutcome = "ok") => ReportedStatus = SUCCESS

\* an operation that failed on its first attempt and succeeded on a later one
C20_Witness ==
  /\ Reported
  /\ StoreCallCount > 1
  /\ lastOutcome = "ok"
  /\ ReportedStatus = SUCCESS

-----------------------------------------------------------------------------
(* C21: the size of the put_vectors batches and what they carry            *)

\* the chunks the successful put_vectors calls of this invocation carried, in
\* the order of the calls
RECURSIVE UploadedChunks(_)
UploadedChunks(calls) ==
  IF calls = << >> THEN << >>
  ELSE (IF Head(calls).outcome = "ok" THEN Head(calls).chunks ELSE << >>)
         \o UploadedChunks(Tail(calls))

\* C21: every put_vectors call of the ingestion handler carries between 1 and
\* BATCH_SIZE (100) vectors, whatever the embedding and upload outcomes, an
\* upload that fails included; and when the handler returns status 200 each
\* chunk embedded with the expected dimension was carried by exactly one
\* successful put_vectors call.
C21_BatchesWithinSize ==
  /\ \A i \in 1..Len(putCalls) :
       putCalls[i].size >= 1 /\ putCalls[i].size <= BATCH_SIZE
  /\ ingestResult = "200" => UploadedChunks(putCalls) = embedded

=============================================================================
